---- MODULE Spec2Model ----
(***************************************************************************)
(* A model of gevent's hub (gevent/__init__.py) and of its cooperative     *)
(* socket (gevent/socket.py).  Greenlets are tasks with a stack of frames; *)
(* exactly one task is current; control moves by greenlet switch/throw.    *)
(* The reactor (gevent.core) is the set of armed events and the dispatch   *)
(* loop that fires them inside the hub's driver greenlet.                  *)
(***************************************************************************)
EXTENDS Integers, Sequences, FiniteSets, TLC

\* ---------------------------------------------------------------- bounds
MaxTasks == 4      \* greenlets ever created, MAIN included
MaxIds   == 4      \* reactor events / timeout markers ever allocated
MaxOps   == 3      \* calls made by user code in one run
MaxSocks == 2      \* real sockets, and cooperative sockets, ever created
MaxTime  == 2      \* ticks of the clock in one run
MaxLen   == 2      \* bytes given to one send or sendall call
MaxThreads == 3    \* OS threads that call get_hub()
MaxHubs  == 4      \* Hub objects (and threading.local objects) created

Tasks  == 0 .. (MaxTasks - 1)
Ids    == 0 .. (MaxIds - 1)
MAIN   == 0
NoTask == -1
NoId   == -1
Socks  == 0 .. (MaxSocks - 1)
NoSock == -1       \* the _closedsocket() placeholder
NoTime == -1       \* no deadline
Threads  == 0 .. (MaxThreads - 1)
HubIds   == 0 .. (MaxHubs - 1)
NoLocal == -1      \* _threadlocal = None
NoHub   == -1      \* the attribute hub is not set

\* the wait primitives: gevent.socket.wait_* and gevent.wait_reader/wait_writer
WaitFns == {"wait_read", "wait_write", "wait_readwrite", "wait_reader", "wait_writer"}

VARIABLES
    cur,       \* greenlet.getcurrent()
    tstate,    \* per greenlet: "none" (not created), "new" (not started), "alive", "dead"
    tparent,   \* per greenlet: g.parent
    tkind,     \* per greenlet: "main", "driver" (body is Hub.run), "user"
    stack,     \* per greenlet: its call stack, a sequence of frames
    hubG,      \* _threadlocal.hub.greenlet, NoTask before the first get_hub()
    kbsig,     \* hub.keyboard_interrupt_signal: None, or the signal event installed
    ev,        \* the reactor's events, by id
    nextId,    \* next event / marker identity
    sig,       \* what the current greenlet's top frame receives next
    ops,       \* calls made by user code so far
    socks,     \* the real sockets (_realsocket objects), by id
    wraps,     \* the cooperative sockets (gevent.socket.socket objects), by id
    now,       \* time.time(), in ticks
    iol,       \* per greenlet: the local variables of the socket call it is in
    is_windows,  \* platform.system() == 'Windows'
    threadlocal, \* the global _threadlocal: a threading.local object, or None
    localhub,    \* per threading.local object and thread: its attribute hub
    thpc,        \* per thread: where it is in get_hub()
    thgot,       \* per thread: the hubs its get_hub() calls have returned
    nlocals,     \* threading.local objects created
    nhubs,       \* Hub objects created
    switch_out,  \* per greenlet: its attribute switch_out, "none" if it has none
    sigs         \* the signal events registered with the reactor, in order

hubvars == <<cur, tstate, tparent, tkind, stack, hubG, kbsig, ev, nextId, sig, ops>>
sockvars == <<socks, wraps>>
iovars == <<now, iol, is_windows>>
thrvars == <<threadlocal, localhub, thpc, thgot, nlocals, nhubs>>
hookvars == <<switch_out, sigs>>
extvars == <<iovars, thrvars, hookvars>>

\* ---------------------------------------------------------------- values
Val(ty, id) == [ty |-> ty, id |-> id]
NoVal       == Val("-", NoId)
None        == Val("None", NoId)
Empty       == Val("()", NoId)            \* what g.switch() with no argument delivers
EvVal(i)    == Val("event", i)            \* the event object itself
\* what Hub.run() returns for dispatch() > 0, < 0 and = 0
RunResult(result) ==
    IF result > 0 THEN Val("Hub.run() has finished because there are no events registered", NoId)
    ELSE IF result < 0 THEN Val("Hub.run() has finished because there was an error", NoId)
    ELSE Val("0", NoId)
TValue(i)   == Val("timeout_value", i)    \* timeout_value of the with_timeout call i
\* exceptions
TimeoutErrorCls == Val("TimeoutError", NoId)   \* raised from the class: a new instance
Marker(i)       == Val("TimeoutError", i)      \* error = TimeoutError() of with_timeout i
Silent(i)       == Val("_SilentException", i)  \* _SilentException() of timeout scope i
SockTimeout     == Val("socket.timeout", NoId) \* the default timeout_exc of wait_*
AssertionError  == Val("AssertionError", NoId)
CustomExc       == Val("CustomExc", NoId)

\* ---------------------------------------------------------------- frames
\* k: the function the frame runs, pc: where it is, id: the event or marker it holds,
\* ex: the exception it holds, hv: has_timeout_value, tm: timeout.timeout is not None
Frame(k, pc, id, ex, hv, tm) ==
    [k |-> k, pc |-> pc, id |-> id, ex |-> ex, hv |-> hv, tm |-> tm]
RunFrame(pc)  == Frame("run", pc, NoId, NoVal, FALSE, FALSE)
\* Hub.run() in its loop, with n calls of core.dispatch() made so far
InLoop(pc, n) == Frame("run", pc, n, NoVal, FALSE, FALSE)
BodyFrame     == Frame("body", "run", NoId, NoVal, FALSE, FALSE)

\* What a frame receives: nothing, a value returned to it, or an exception raised
\* in it.  fr is the call the value or exception comes out of (the frame that was
\* popped, or From(...) for what has no frame), got is what that call had received.
From(src, id) == Frame(src, "-", id, NoVal, FALSE, FALSE)
Sig(k, v, fr, got) == [k |-> k, v |-> v, fr |-> fr, got |-> got]
NoSig       == Sig("none", NoVal, From("-", NoId), NoVal)
Ret(v, src, sid, got) == Sig("ret", v, From(src, sid), got)
Exc(v, src, sid, got) == Sig("exc", v, From(src, sid), got)
RetF(v, f, got) == Sig("ret", v, f, got)
ExcF(v, f, got) == Sig("exc", v, f, got)

Top(s)   == s[Len(s)]
Pop(s)   == SubSeq(s, 1, Len(s) - 1)
Push(s, f) == Append(s, f)
SetTop(s, f) == [s EXCEPT ![Len(s)] = f]

\* ---------------------------------------------------------------- events
Event(st, kind, cb, tgt, exc, tmo, by) ==
    [st |-> st, kind |-> kind, cb |-> cb, tgt |-> tgt, exc |-> exc, tmo |-> tmo, by |-> by]
FreeEv == Event("free", "-", "-", NoTask, NoVal, FALSE, "-")
DoneEv == Event("done", "-", "-", NoTask, NoVal, FALSE, "-")

\* core.timer(seconds, callback, *args)
Timer(cb, tgt, exc, by) == Event("armed", "timer", cb, tgt, exc, FALSE, by)
\* core.read_event / write_event / readwrite_event (fileno, _wait_helper, timeout, arg)
FdEvent(fn, tgt, exc, tmo) == Event("armed", fn, "_wait_helper", tgt, exc, tmo, fn)

\* event.cancel(): idempotent, a cancelled event never fires
Cancel(evs, i) == IF i = NoId THEN evs ELSE [evs EXCEPT ![i] = DoneEv]

Armed(i) == i \in Ids /\ ev[i].st = "armed"

\* ---------------------------------------------------------------- socket values
\* a socket timeout: None, or a number of seconds
TNone   == [none |-> TRUE, secs |-> 0]
Secs(n) == [none |-> FALSE, secs |-> n]
Timeouts == {TNone, Secs(0), Secs(1)}

\* a real socket as the OS hands it out: in blocking mode unless a default
\* timeout is set
RealSocket(blocking) == [st |-> "open", blocking |-> blocking]
NoRealSocket == [st |-> "none", blocking |-> FALSE]
\* a cooperative socket: its _sock and its timeout
Wrapper(s, t) == [st |-> "live", sock |-> s, timeout |-> t]
NoWrapper == [st |-> "none", sock |-> NoSock, timeout |-> TNone]

\* error(errno, ...), by the name of its errno
SockError(errno) == Val(errno, NoId)
ValueError == Val("ValueError", NoId)

\* the local variables of a socket call that last over a wait: when the call
\* began, its end instant, the bytes sent so far and to send, and the deadline
\* of the wait it is in
Locals(began, end, sent, len, due) ==
    [began |-> began, end |-> end, sent |-> sent, len |-> len, due |-> due]
NoLocals == Locals(NoTime, NoTime, 0, 0, NoTime)

\* ---------------------------------------------------------------- init
\* the state after the modules are imported, on Windows or elsewhere
Start(windows) ==
    /\ cur = MAIN
    /\ tstate = [t \in Tasks |-> IF t = MAIN THEN "alive" ELSE "none"]
    /\ tparent = [t \in Tasks |-> NoTask]
    /\ tkind = [t \in Tasks |-> IF t = MAIN THEN "main" ELSE "-"]
    /\ stack = [t \in Tasks |-> IF t = MAIN THEN <<BodyFrame>> ELSE <<>>]
    /\ hubG = NoTask
    /\ kbsig = NoId
    /\ ev = [i \in Ids |-> FreeEv]
    /\ nextId = 0
    /\ sig = NoSig
    /\ ops = 0
    /\ socks = [s \in Socks |-> NoRealSocket]
    /\ wraps = [w \in Socks |-> NoWrapper]
    /\ now = 0
    /\ iol = [t \in Tasks |-> NoLocals]
    /\ is_windows = windows
    /\ threadlocal = NoLocal
    /\ localhub = [l \in HubIds |-> [th \in Threads |-> NoHub]]
    /\ thpc = [th \in Threads |-> "idle"]
    /\ thgot = [th \in Threads |-> {}]
    /\ nlocals = 0
    /\ nhubs = 0
    /\ switch_out = [t \in Tasks |-> "none"]
    /\ sigs = <<>>

Init == Start(FALSE)

\* the same on either platform
AnyInit == \E windows \in BOOLEAN : Start(windows)

\* ---------------------------------------------------------------- greenlet
HasFree(tst) == \E t \in Tasks : tst[t] = "none"
Fresh(tst)   == CHOOSE t \in Tasks : tst[t] = "none" /\ \A u \in Tasks : tst[u] = "none" => t <= u

\* A switch into a dead greenlet goes to its parent; an exception thrown into a
\* greenlet that never started kills it and goes to its parent.
RECURSIVE Chain(_, _, _, _)
Chain(tst, tpar, g, isExc) ==
    IF tst[g] = "dead" \/ (tst[g] = "new" /\ isExc)
    THEN {g} \cup Chain(tst, tpar, tpar[g], isExc)
    ELSE {}

RECURSIVE Target(_, _, _, _)
Target(tst, tpar, g, isExc) ==
    IF tst[g] = "dead" \/ (tst[g] = "new" /\ isExc)
    THEN Target(tst, tpar, tpar[g], isExc)
    ELSE g

\* g.switch(value) / g.throw(exc) made by the current greenlet, whose stack is
\* already in stk; a greenlet that finishes transfers to its parent the same way.
Transfer(tst, tpar, tk, stk, g, payload) ==
    LET isExc == payload.k = "exc"
        tgt   == Target(tst, tpar, g, isExc)
        gone  == Chain(tst, tpar, g, isExc)
        tst2  == [t \in Tasks |-> IF t \in gone THEN "dead" ELSE tst[t]]
    IN  /\ cur' = tgt
        /\ tparent' = tpar
        /\ tkind' = tk
        /\ IF tst2[tgt] = "new"
           THEN /\ tstate' = [tst2 EXCEPT ![tgt] = "alive"]
                /\ stack' = [stk EXCEPT ![tgt] =
                       <<IF tk[tgt] = "driver" THEN RunFrame("start") ELSE BodyFrame>>]
                /\ sig' = NoSig
           ELSE /\ tstate' = tst2
                /\ stack' = stk
                /\ sig' = payload

\* ---------------------------------------------------------------- hub
\* get_hub(): the hub is created on first use, its greenlet a child of the caller
CanGetHub == hubG # NoTask \/ HasFree(tstate)
get_hub ==
    IF hubG # NoTask
    THEN [g |-> hubG, ts |-> tstate, tp |-> tparent, tk |-> tkind]
    ELSE LET d == Fresh(tstate)
         IN  [g |-> d, ts |-> [tstate EXCEPT ![d] = "new"],
              tp |-> [tparent EXCEPT ![d] = cur], tk |-> [tkind EXCEPT ![d] = "driver"]]

\* the model can still make the greenlet Hub.switch() may have to create
CanSwitch ==
    /\ CanGetHub
    /\ (hubG # NoTask /\ tstate[hubG] = "dead") => HasFree(tstate)

\* assert cur is not self.greenlet: does the assertion fail
SwitchAssertSkipped(h) == FALSE
SwitchAssertFails(h) == cur = h.g

\* if self.greenlet.dead: is the driver greenlet to be replaced
DriverNeverDead(h) == FALSE
DriverDead(h) == h.ts[h.g] = "dead"

\* switch_out = getattr(cur, 'switch_out', None); if switch_out is not None:
\* switch_out() -- the hook returns or raises; the frame that called Hub.switch()
\* keeps the number of calls of the hook made for it
HookCalled(stk) ==
    IF switch_out[cur] = "none" THEN stk
    ELSE [stk EXCEPT ![cur] = SetTop(@, [Top(@) EXCEPT !.ex = Val(switch_out[cur], 1)])]

\* try: switch_out() except: traceback.print_exception(*sys.exc_info()) --
\* does an exception of the hook leave Hub.switch()
HookRaisesUncaught(h) == switch_out[cur] = "raises"
HookRaises(h) == FALSE

\* Hub.switch() called by the current greenlet, whose stack is already stk
HubSwitch(stk) ==
    LET h == get_hub
    IN  IF SwitchAssertFails(h)
        THEN \* AssertionError: Cannot switch to MAINLOOP from MAINLOOP
             /\ sig' = Exc(AssertionError, "Hub.switch", NoId, NoVal)
             /\ stack' = stk
             /\ UNCHANGED <<cur, hubG, tstate, tparent, tkind>>
        ELSE IF HookRaises(h)
        THEN /\ sig' = Exc(CustomExc, "Hub.switch", NoId, NoVal)
             /\ stack' = HookCalled(stk)
             /\ UNCHANGED <<cur, hubG, tstate, tparent, tkind>>
        ELSE IF DriverDead(h)
        THEN \* self.greenlet = Greenlet(self.run); return self.greenlet.switch()
             LET d == Fresh(h.ts)
             IN  /\ hubG' = d
                 /\ Transfer([h.ts EXCEPT ![d] = "new"], [h.tp EXCEPT ![d] = cur],
                             [h.tk EXCEPT ![d] = "driver"], HookCalled(stk), d,
                             Ret(Empty, "Hub.switch", NoId, NoVal))
        ELSE /\ hubG' = h.g
             /\ Transfer(h.ts, h.tp, h.tk, HookCalled(stk), h.g,
                         Ret(Empty, "Hub.switch", NoId, NoVal))

\* ---------------------------------------------------------------- user code
Running == tstate[cur] = "alive" /\ stack[cur] # <<>>
TopF    == Top(stack[cur])
\* the current greenlet is at a point where it makes its next call: in a function
\* body, in the block of a `with timeout(...)`, or in with_timeout about to call func
Caller ==
    /\ Running
    /\ sig.k = "none"
    /\ ops < MaxOps
    /\ \/ TopF.k \in {"body", "timeout"}
       \/ TopF.k = "with_timeout" /\ TopF.pc = "call"
\* the caller's stack once the call is made
Called == IF TopF.k = "with_timeout"
          THEN SetTop(stack[cur], [TopF EXCEPT !.pc = "called"])
          ELSE stack[cur]

\* user code gives the current greenlet a switch_out hook that returns or raises
SetSwitchOut(hook) ==
    /\ Running /\ sig.k = "none" /\ TopF.k = "body"
    /\ switch_out[cur] = "none"
    /\ switch_out' = [switch_out EXCEPT ![cur] = hook]
    /\ UNCHANGED <<hubvars, sockvars, iovars, thrvars, sigs>>

\* sleep(seconds), up to the switch into the hub
Sleep ==
    /\ Caller /\ CanSwitch
    /\ ops' = ops + 1
    /\ kbsig' = kbsig
    /\ LET h == get_hub
       IN  IF h.g = cur
           THEN \* assert hub.greenlet is not greenlet.getcurrent()
                /\ sig' = Exc(AssertionError, "sleep", NoId, NoVal)
                /\ stack' = [stack EXCEPT ![cur] = Called]
                /\ UNCHANGED <<cur, tstate, tparent, tkind, hubG, ev, nextId>>
           ELSE /\ nextId < MaxIds
                /\ ev' = [ev EXCEPT ![nextId] = Timer("switch", cur, NoVal, "sleep")]
                /\ nextId' = nextId + 1
                /\ HubSwitch([stack EXCEPT ![cur] =
                       Push(Called, Frame("sleep", "switched", nextId, NoVal, FALSE, TRUE))])
    /\ UNCHANGED <<sockvars, extvars>>

\* the default timeout_exc of a wait primitive
DefaultTimeoutExc(fn) ==
    IF fn \in {"wait_reader", "wait_writer"} THEN TimeoutErrorCls ELSE SockTimeout

\* wait_read / wait_write / wait_readwrite / wait_reader / wait_writer
\* (fileno, timeout), up to the switch into the hub; tmo: timeout >= 0
Wait(fn, tmo) ==
    /\ Caller /\ CanSwitch
    /\ nextId < MaxIds
    /\ ops' = ops + 1
    /\ kbsig' = kbsig
    /\ ev' = [ev EXCEPT ![nextId] = FdEvent(fn, cur, DefaultTimeoutExc(fn), tmo)]
    /\ nextId' = nextId + 1
    /\ HubSwitch([stack EXCEPT ![cur] =
           Push(Called, Frame(fn, "switched", nextId, NoVal, FALSE, tmo))])
    /\ UNCHANGED <<sockvars, extvars>>

\* get_hub().switch() called by user code
SwitchCall ==
    /\ Caller /\ CanSwitch
    /\ ops' = ops + 1
    /\ UNCHANGED <<kbsig, ev, nextId>>
    /\ HubSwitch([stack EXCEPT ![cur] =
           Push(Called, Frame("Hub.switch", "switched", NoId, NoVal, FALSE, FALSE))])
    /\ UNCHANGED <<sockvars, extvars>>

\* sleep() resumed: finally: t.cancel()
SleepResume ==
    /\ Running /\ TopF.k = "sleep" /\ sig.k # "none"
    /\ ev' = Cancel(ev, TopF.id)
    /\ stack' = [stack EXCEPT ![cur] = Pop(@)]
    /\ sig' = IF sig.k = "ret" THEN RetF(None, TopF, sig.v)
                               ELSE ExcF(sig.v, TopF, NoVal)
    /\ UNCHANGED <<cur, tstate, tparent, tkind, hubG, kbsig, nextId, ops>>
    /\ UNCHANGED <<sockvars, extvars>>

\* wait_*() resumed with s: assert evt is switch_result
WaitResultNoAssert(f, s) ==
    IF s.k = "exc" THEN ExcF(s.v, f, NoVal) ELSE RetF(None, f, s.v)
WaitResult(f, s) ==
    IF s.k = "exc" THEN ExcF(s.v, f, NoVal)
    ELSE IF s.v = EvVal(f.id) THEN RetF(None, f, s.v)
    ELSE ExcF(AssertionError, f, s.v)

\* wait_*() resumed with s: finally: evt.cancel()
FinallyCancelOnReturnOnly(evs, f, s) == IF s.k = "ret" THEN Cancel(evs, f.id) ELSE evs
FinallyCancel(evs, f, s) == Cancel(evs, f.id)

\* wait_*() resumed
WaitResume ==
    /\ Running /\ TopF.k \in WaitFns /\ sig.k # "none"
    /\ ev' = FinallyCancel(ev, TopF, sig)
    /\ stack' = [stack EXCEPT ![cur] = Pop(@)]
    /\ sig' = WaitResult(TopF, sig)
    /\ UNCHANGED <<cur, tstate, tparent, tkind, hubG, kbsig, nextId, ops>>
    /\ UNCHANGED <<sockvars, extvars>>

\* Hub.switch() called by user code returns what the greenlet was resumed with
SwitchResume ==
    /\ Running /\ TopF.k = "Hub.switch" /\ sig.k # "none"
    /\ stack' = [stack EXCEPT ![cur] = Pop(@)]
    /\ sig' = [sig EXCEPT !.fr = TopF]
    /\ UNCHANGED <<cur, tstate, tparent, tkind, hubG, kbsig, ev, nextId, ops>>
    /\ UNCHANGED <<sockvars, extvars>>

\* spawn: g.switch() called on the spot instead of timer(0, g.switch)
ScheduleBySwitch(g, ts, tp, tk) ==
    /\ ev' = [ev EXCEPT ![nextId] = DoneEv]
    /\ Transfer(ts, tp, tk,
                [stack EXCEPT ![cur] =
                    Push(Called, Frame("Hub.switch", "switched", NoId, NoVal, FALSE, FALSE))],
                g, Ret(Empty, "spawn", nextId, NoVal))
\* spawn: timer(0, g.switch); return g
Schedule(g, ts, tp, tk) ==
    /\ ev' = [ev EXCEPT ![nextId] = Timer("switch", g, NoVal, "spawn")]
    /\ sig' = Ret(Val("greenlet", g), "spawn", nextId, NoVal)
    /\ stack' = [stack EXCEPT ![cur] = Called]
    /\ cur' = cur
    /\ tstate' = ts
    /\ tparent' = tp
    /\ tkind' = tk

\* spawn(function) and spawn_later(seconds, function)
Spawn ==
    /\ Caller /\ CanGetHub
    /\ nextId < MaxIds
    /\ LET h == get_hub
       IN  /\ HasFree(h.ts)
           /\ LET g == Fresh(h.ts)
              IN  Schedule(g, [h.ts EXCEPT ![g] = "new"], [h.tp EXCEPT ![g] = h.g],
                           [h.tk EXCEPT ![g] = "user"])
           /\ hubG' = h.g
    /\ nextId' = nextId + 1
    /\ ops' = ops + 1
    /\ kbsig' = kbsig
    /\ UNCHANGED <<sockvars, extvars>>

\* the greenlets user code holds a reference to
Known(g) == tstate[g] \in {"new", "alive"} /\ tkind[g] \in {"main", "user"}

\* kill(g, CustomExc)
Kill(g) ==
    /\ Caller /\ CanSwitch
    /\ Known(g) /\ g # cur
    /\ nextId < MaxIds
    /\ ops' = ops + 1
    /\ kbsig' = kbsig
    /\ LET h == get_hub
           armed == [ev EXCEPT ![nextId] = Timer("throw", g, CustomExc, "kill")]
       IN  IF cur = h.g
           THEN /\ ev' = armed
                /\ nextId' = nextId + 1
                /\ sig' = Ret(None, "kill", nextId, NoVal)
                /\ stack' = [stack EXCEPT ![cur] = Called]
                /\ UNCHANGED <<cur, tstate, tparent, tkind, hubG>>
           ELSE \* sleep(0)
                /\ nextId + 1 < MaxIds
                /\ ev' = [armed EXCEPT ![nextId + 1] = Timer("switch", cur, NoVal, "sleep")]
                /\ nextId' = nextId + 2
                /\ HubSwitch([stack EXCEPT ![cur] =
                       Push(Push(Called, Frame("kill", "called", nextId, NoVal,
                                               tstate[g] = "alive", FALSE)),
                            Frame("sleep", "switched", nextId + 1, NoVal, FALSE, TRUE))])
    /\ UNCHANGED <<sockvars, extvars>>

\* kill() returns when its sleep(0) does
KillResume ==
    /\ Running /\ TopF.k = "kill" /\ sig.k # "none"
    /\ stack' = [stack EXCEPT ![cur] = Pop(@)]
    /\ sig' = IF sig.k = "ret" THEN RetF(None, TopF, NoVal)
                               ELSE ExcF(sig.v, TopF, NoVal)
    /\ UNCHANGED <<cur, tstate, tparent, tkind, hubG, kbsig, ev, nextId, ops>>
    /\ UNCHANGED <<sockvars, extvars>>

\* timer(0, g.switch) armed by user code: a stray switch into g
TimerSwitch(g) ==
    /\ Caller
    /\ Known(g)
    /\ nextId < MaxIds
    /\ ev' = [ev EXCEPT ![nextId] = Timer("switch", g, NoVal, "timer")]
    /\ nextId' = nextId + 1
    /\ ops' = ops + 1
    /\ sig' = Ret(EvVal(nextId), "timer", nextId, NoVal)
    /\ stack' = [stack EXCEPT ![cur] = Called]
    /\ UNCHANGED <<cur, tstate, tparent, tkind, hubG, kbsig>>
    /\ UNCHANGED <<sockvars, extvars>>

\* timer(0, function) armed by user code: function will run in the driver greenlet
TimerCall ==
    /\ Caller
    /\ nextId < MaxIds
    /\ ev' = [ev EXCEPT ![nextId] = Timer("call", NoTask, NoVal, "timer")]
    /\ nextId' = nextId + 1
    /\ ops' = ops + 1
    /\ sig' = Ret(EvVal(nextId), "timer", nextId, NoVal)
    /\ stack' = [stack EXCEPT ![cur] = Called]
    /\ UNCHANGED <<cur, tstate, tparent, tkind, hubG, kbsig>>
    /\ UNCHANGED <<sockvars, extvars>>

\* the caller takes the value of the call it made and goes on
Continue ==
    /\ Running /\ TopF.k \in {"body", "timeout"} /\ sig.k = "ret"
    /\ sig' = NoSig
    /\ UNCHANGED <<cur, tstate, tparent, tkind, stack, hubG, kbsig, ev, nextId, ops>>
    /\ UNCHANGED <<sockvars, extvars>>

\* user code raises an exception of its own
Raise ==
    /\ Running /\ TopF.k \in {"body", "timeout"} /\ sig.k = "none"
    /\ sig' = Exc(CustomExc, "raise", NoId, NoVal)
    /\ UNCHANGED <<cur, tstate, tparent, tkind, stack, hubG, kbsig, ev, nextId, ops>>
    /\ UNCHANGED <<sockvars, extvars>>

\* ---------------------------------------------------------------- timeouts
\* timeout.cancel(): if self.timeout is not None: self.timeout.cancel()
TimeoutCancel(evs, f) == IF f.tm THEN Cancel(evs, f.id) ELSE evs

\* `with timeout(seconds, exception):` entered; silent: exception is None,
\* else the default TimeoutError; secs: seconds is not None
TimeoutEnter(silent, secs) ==
    /\ Caller
    /\ nextId < MaxIds
    /\ LET exception == IF silent THEN Silent(nextId) ELSE TimeoutErrorCls
       IN  /\ ev' = [ev EXCEPT ![nextId] =
                  IF secs THEN Timer("throw", cur, exception, "timeout") ELSE DoneEv]
           /\ stack' = [stack EXCEPT ![cur] =
                  Push(Called, Frame("timeout", "block", nextId, exception, FALSE, secs))]
    /\ nextId' = nextId + 1
    /\ ops' = ops + 1
    /\ UNCHANGED <<cur, tstate, tparent, tkind, hubG, kbsig, sig>>
    /\ UNCHANGED <<sockvars, extvars>>

\* timeout.__exit__(typ, value, tb): self.cancel()
ExitCancelOnNormalExit(evs, f, s) == IF s.k = "none" THEN TimeoutCancel(evs, f) ELSE evs
ExitCancel(evs, f, s) == TimeoutCancel(evs, f)

\* timeout.__exit__(typ, value, tb):
\* if typ is _SilentException and value is self.exception: return True
ExitResultAnySilent(f, s) ==
    IF s.k = "none" THEN RetF(None, f, NoVal)
    ELSE IF s.v.ty = "_SilentException" THEN RetF(None, f, s.v)
    ELSE ExcF(s.v, f, s.v)
ExitResult(f, s) ==
    IF s.k = "none" THEN RetF(None, f, NoVal)
    ELSE IF s.v.ty = "_SilentException" /\ s.v = f.ex THEN RetF(None, f, s.v)
    ELSE ExcF(s.v, f, s.v)

\* the `with timeout(...)` block is left, normally or by an exception
TimeoutExit ==
    /\ Running /\ TopF.k = "timeout" /\ sig.k # "ret"
    /\ ev' = ExitCancel(ev, TopF, sig)
    /\ stack' = [stack EXCEPT ![cur] = Pop(@)]
    /\ sig' = ExitResult(TopF, sig)
    /\ UNCHANGED <<cur, tstate, tparent, tkind, hubG, kbsig, nextId, ops>>
    /\ UNCHANGED <<sockvars, extvars>>

\* with_timeout(seconds, func, ...) up to the call of func; hv: timeout_value given
WithTimeout(hv, secs) ==
    /\ Caller
    /\ nextId < MaxIds
    /\ ev' = [ev EXCEPT ![nextId] =
           IF secs THEN Timer("throw", cur, Marker(nextId), "timeout") ELSE DoneEv]
    /\ stack' = [stack EXCEPT ![cur] =
           Push(Called, Frame("with_timeout", "call", nextId, Marker(nextId), hv, secs))]
    /\ nextId' = nextId + 1
    /\ ops' = ops + 1
    /\ UNCHANGED <<cur, tstate, tparent, tkind, hubG, kbsig, sig>>
    /\ UNCHANGED <<sockvars, extvars>>

\* func of with_timeout returns without yielding
FuncReturn ==
    /\ Running /\ TopF.k = "with_timeout" /\ TopF.pc = "call" /\ sig.k = "none"
    /\ stack' = [stack EXCEPT ![cur] = SetTop(@, [TopF EXCEPT !.pc = "called"])]
    /\ sig' = Ret(None, "func", NoId, NoVal)
    /\ UNCHANGED <<cur, tstate, tparent, tkind, hubG, kbsig, ev, nextId, ops>>
    /\ UNCHANGED <<sockvars, extvars>>

\* with_timeout after func returned or raised: finally: timer.cancel()
WithTimeoutCancelOnExcept(evs, f, s) == IF s.k = "exc" THEN TimeoutCancel(evs, f) ELSE evs
WithTimeoutCancel(evs, f, s) == TimeoutCancel(evs, f)

\* with_timeout after func returned or raised:
\* except TimeoutError, ex: if ex is error and has_timeout_value: return timeout_value
WithTimeoutResultAnyTimeout(f, s) ==
    IF s.k = "ret" THEN RetF(s.v, f, s.v)
    ELSE IF s.v.ty = "TimeoutError" /\ f.hv THEN RetF(TValue(f.id), f, s.v)
    ELSE ExcF(s.v, f, s.v)
WithTimeoutResult(f, s) ==
    IF s.k = "ret" THEN RetF(s.v, f, s.v)
    ELSE IF s.v.ty = "TimeoutError" /\ s.v = f.ex /\ f.hv THEN RetF(TValue(f.id), f, s.v)
    ELSE ExcF(s.v, f, s.v)

\* with_timeout after func returned or raised
WithTimeoutEnd ==
    /\ Running /\ TopF.k = "with_timeout" /\ sig.k # "none"
    /\ ev' = WithTimeoutCancel(ev, TopF, sig)
    /\ stack' = [stack EXCEPT ![cur] = Pop(@)]
    /\ sig' = WithTimeoutResult(TopF, sig)
    /\ UNCHANGED <<cur, tstate, tparent, tkind, hubG, kbsig, nextId, ops>>
    /\ UNCHANGED <<sockvars, extvars>>

\* ---------------------------------------------------------------- greenlet end
\* a function called back by the reactor returns or raises into the dispatch loop
BodyEnd ==
    /\ Running /\ TopF.k = "body" /\ Len(stack[cur]) > 1 /\ sig.k # "ret"
    /\ stack' = [stack EXCEPT ![cur] = Pop(@)]
    /\ sig' = IF sig.k = "none" THEN RetF(None, TopF, NoVal)
                                ELSE ExcF(sig.v, TopF, NoVal)
    /\ UNCHANGED <<cur, tstate, tparent, tkind, hubG, kbsig, ev, nextId, ops>>
    /\ UNCHANGED <<sockvars, extvars>>

\* a spawned greenlet's function returns or raises: the greenlet is dead and its
\* result goes to its parent
Finish ==
    /\ Running /\ TopF.k = "body" /\ Len(stack[cur]) = 1 /\ sig.k # "ret"
    /\ cur # MAIN
    /\ Transfer([tstate EXCEPT ![cur] = "dead"], tparent, tkind,
                [stack EXCEPT ![cur] = <<>>], tparent[cur],
                IF sig.k = "none" THEN Ret(None, "finish", cur, NoVal)
                                  ELSE Exc(sig.v, "finish", cur, NoVal))
    /\ UNCHANGED <<hubG, kbsig, ev, nextId, ops>>
    /\ UNCHANGED <<sockvars, extvars>>

\* the program's main greenlet ends: the process exits
MainExit ==
    /\ Running /\ TopF.k = "body" /\ Len(stack[cur]) = 1 /\ sig.k # "ret"
    /\ cur = MAIN
    /\ tstate' = [tstate EXCEPT ![MAIN] = "dead"]
    /\ stack' = [stack EXCEPT ![MAIN] = <<>>]
    /\ sig' = NoSig
    /\ UNCHANGED <<cur, tparent, tkind, hubG, kbsig, ev, nextId, ops>>
    /\ UNCHANGED <<sockvars, extvars>>

\* ---------------------------------------------------------------- driver
InDispatch == Running /\ TopF.k = "run" /\ TopF.pc = "dispatch" /\ sig.k = "none"

\* a signal event: core.signal(signalnum, deliver_exception_to_MAIN) made by
\* signal(signalnum, handler, *args); by: who registered it
SigEvent(num, handler, by) == [num |-> num, handler |-> handler, by |-> by]
SIGINT == 2

\* if self.keyboard_interrupt_signal is None: is the SIGINT handler to be installed
InstallAlways(k) == TRUE
Install(k) == k = NoId

\* Hub.run() before the loop: the SIGINT handler is installed if there is none,
\* self.keyboard_interrupt_signal = signal(2, MAIN.throw, KeyboardInterrupt)
RunStart ==
    /\ Running /\ TopF.k = "run" /\ TopF.pc = "start"
    /\ IF Install(kbsig)
       THEN /\ sigs' = Append(sigs, SigEvent(SIGINT, "MAIN.throw", "Hub.run"))
            /\ kbsig' = Len(sigs) + 1
       ELSE UNCHANGED <<sigs, kbsig>>
    /\ stack' = [stack EXCEPT ![cur] = SetTop(@, InLoop("dispatch", 1))]
    /\ UNCHANGED <<cur, tstate, tparent, tkind, hubG, ev, nextId, sig, ops>>
    /\ UNCHANGED <<sockvars, iovars, thrvars, switch_out>>

\* core.dispatch() fires event i: a timer that is due, or a descriptor that is ready.
\* The callback runs in the driver greenlet; the event is no longer pending.
Fire(i) ==
    /\ InDispatch /\ Armed(i)
    /\ ev' = [ev EXCEPT ![i] = DoneEv]
    /\ UNCHANGED <<hubG, kbsig, nextId, ops>>
    /\ LET e   == ev[i]
           stk == [stack EXCEPT ![cur] = SetTop(@, InLoop("in_cb", TopF.id))]
       IN  CASE e.cb = "switch" ->
                  Transfer(tstate, tparent, tkind, stk, e.tgt, Ret(Empty, "timer", i, NoVal))
             [] e.cb = "throw" ->
                  Transfer(tstate, tparent, tkind, stk, e.tgt, Exc(e.exc, "timer", i, NoVal))
             [] e.cb = "_wait_helper" ->
                  \* current.switch(ev)
                  Transfer(tstate, tparent, tkind, stk, e.tgt,
                           Ret(EvVal(i), "_wait_helper", i, NoVal))
             [] e.cb = "call" ->
                  /\ stack' = [stk EXCEPT ![cur] = Push(@, BodyFrame)]
                  /\ UNCHANGED <<cur, tstate, tparent, tkind, sig>>
    /\ UNCHANGED <<sockvars, extvars>>

\* the timeout of the event i has run out
TimedOut(i) == iol[ev[i].tgt].due = NoTime \/ now >= iol[ev[i].tgt].due

\* core.dispatch() fires the timeout of event i:
\* _wait_helper with EV_TIMEOUT does current.throw(timeout_exc)
FireTimeout(i) ==
    /\ InDispatch /\ Armed(i)
    /\ ev[i].cb = "_wait_helper" /\ ev[i].tmo
    /\ TimedOut(i)
    /\ ev' = [ev EXCEPT ![i] = DoneEv]
    /\ UNCHANGED <<hubG, kbsig, nextId, ops>>
    /\ Transfer(tstate, tparent, tkind,
                [stack EXCEPT ![cur] = SetTop(@, InLoop("in_cb", TopF.id))],
                ev[i].tgt, Exc(ev[i].exc, "_wait_helper", i, NoVal))
    /\ UNCHANGED <<sockvars, extvars>>

\* the callback returns into the dispatch loop
CallbackReturn ==
    /\ Running /\ TopF.k = "run" /\ TopF.pc = "in_cb" /\ sig.k = "ret"
    /\ stack' = [stack EXCEPT ![cur] = SetTop(@, InLoop("dispatch", TopF.id))]
    /\ sig' = NoSig
    /\ UNCHANGED <<cur, tstate, tparent, tkind, hubG, kbsig, ev, nextId, ops>>
    /\ UNCHANGED <<sockvars, extvars>>

\* Hub.run() returns: the driver greenlet is dead, its parent gets the result
RunReturn(result) ==
    /\ Transfer([tstate EXCEPT ![cur] = "dead"], tparent, tkind,
                [stack EXCEPT ![cur] = <<>>], tparent[cur],
                Ret(RunResult(result), "Hub.run", cur, NoVal))
    /\ UNCHANGED <<hubG, kbsig, ev, nextId, ops>>

\* while True: result = core.dispatch(); ... -- does the loop go round again
\* when dispatch has returned result: every branch of the loop's body returns
RunLoopsWhenStopped(result) == result = 0
RunLoops(result) == FALSE

\* core.dispatch() returns: > 0 with no event pending, 0 when stopped, < 0 on error
DispatchReturn(result) ==
    /\ InDispatch
    /\ result > 0 <=> \A i \in Ids : ~Armed(i)
    /\ IF RunLoops(result)
       THEN /\ stack' = [stack EXCEPT ![cur] = SetTop(@, InLoop("dispatch", TopF.id + 1))]
            /\ UNCHANGED <<cur, tstate, tparent, tkind, hubG, kbsig, ev, nextId, sig, ops>>
       ELSE RunReturn(result)
    /\ UNCHANGED <<sockvars, extvars>>

\* a callback raised: the reactor reports it and goes on, or dispatch() ends in error
CallbackRaised(goon) ==
    /\ Running /\ TopF.k = "run" /\ TopF.pc = "in_cb" /\ sig.k = "exc"
    /\ IF goon
       THEN /\ stack' = [stack EXCEPT ![cur] = SetTop(@, InLoop("dispatch", TopF.id))]
            /\ sig' = NoSig
            /\ UNCHANGED <<cur, tstate, tparent, tkind, hubG, kbsig, ev, nextId, ops>>
       ELSE RunReturn(-1)
    /\ UNCHANGED <<sockvars, extvars>>

\* ---------------------------------------------------------------- signals
KeyboardInterrupt == Val("KeyboardInterrupt", NoId)
SIGTERM == 15
\* the most signal events that user code registers
MaxSigs == 1
UserSigs == {i \in 1 .. Len(sigs) : sigs[i].by = "user"}

\* signal(signalnum, handler) called by user code, handler being a function of
\* the program
Signal(num) ==
    /\ Caller /\ Cardinality(UserSigs) < MaxSigs
    /\ sigs' = Append(sigs, SigEvent(num, "function", "user"))
    /\ sig' = Ret(Val("signal", Len(sigs) + 1), "signal", NoId, NoVal)
    /\ stack' = [stack EXCEPT ![cur] = Called]
    /\ UNCHANGED <<cur, tstate, tparent, tkind, hubG, kbsig, ev, nextId, ops>>
    /\ UNCHANGED <<sockvars, iovars, thrvars, switch_out>>

\* except: MAIN.throw(*sys.exc_info()) -- the greenlet that the exception of a
\* handler is thrown into by the driver greenlet d
ThrownIntoCaller(d) == d
ThrownInto(d) == MAIN

\* core.dispatch() delivers the signal of the event i, which stays registered:
\* deliver_exception_to_MAIN calls handler(*args) in the driver greenlet; the
\* handler of the hub's SIGINT event is MAIN.throw(KeyboardInterrupt)
FireSignal(i) ==
    /\ InDispatch /\ i \in 1 .. Len(sigs)
    /\ tstate[MAIN] = "alive"
    /\ LET stk == [stack EXCEPT ![cur] =
                      Push(SetTop(@, InLoop("in_cb", TopF.id)),
                           Frame("deliver_exception_to_MAIN", "try", i, NoVal, FALSE, FALSE))]
       IN  IF sigs[i].handler = "MAIN.throw"
           THEN Transfer(tstate, tparent, tkind, stk, MAIN,
                         Exc(KeyboardInterrupt, "signal", i, NoVal))
           ELSE /\ stack' = [stk EXCEPT ![cur] = Push(@, BodyFrame)]
                /\ UNCHANGED <<cur, tstate, tparent, tkind, sig>>
    /\ UNCHANGED <<hubG, kbsig, ev, nextId, ops>>
    /\ UNCHANGED <<sockvars, extvars>>

\* deliver_exception_to_MAIN after handler(*args): an exception of the handler is
\* thrown into MAIN; when the driver greenlet is switched into again, the call
\* returns to the reactor
DeliverResume ==
    /\ Running /\ TopF.k = "deliver_exception_to_MAIN" /\ sig.k # "none"
    /\ IF sig.k = "exc" /\ TopF.pc = "try"
       THEN Transfer(tstate, tparent, tkind,
                     [stack EXCEPT ![cur] = SetTop(@, [TopF EXCEPT !.pc = "except"])],
                     ThrownInto(cur),
                     Exc(sig.v, "deliver_exception_to_MAIN", TopF.id, NoVal))
       ELSE /\ stack' = [stack EXCEPT ![cur] = Pop(@)]
            /\ sig' = IF sig.k = "ret" THEN RetF(None, TopF, NoVal)
                                       ELSE ExcF(sig.v, TopF, NoVal)
            /\ UNCHANGED <<cur, tstate, tparent, tkind>>
    /\ UNCHANGED <<hubG, kbsig, ev, nextId, ops>>
    /\ UNCHANGED <<sockvars, extvars>>

\* ---------------------------------------------------------------- socket
HasFreeSock(rs) == \E x \in Socks : rs[x].st = "none"
FreshSock(rs)   == CHOOSE x \in Socks : rs[x].st = "none" /\ \A y \in Socks : rs[y].st = "none" => x <= y
HasFreeWrap(ws) == \E x \in Socks : ws[x].st = "none"
FreshWrap(ws)   == CHOOSE x \in Socks : ws[x].st = "none" /\ \A y \in Socks : ws[y].st = "none" => x <= y

Live(w) == wraps[w].st = "live"
IsClosed(w) == wraps[w].sock = NoSock

\* user code is between two calls; the socket's own setters are not counted as calls
Idle == Running /\ sig.k = "none" /\ TopF.k = "body"

\* socket.__init__: self._sock.setblocking(0)
SetNonBlockingSkipped(rs, s) == rs
SetNonBlocking(rs, s) == [rs EXCEPT ![s].blocking = FALSE]

\* socket.__init__ given the real socket s: the new cooperative socket w
Construct(ws, rs, w, s, t) ==
    [ws |-> [ws EXCEPT ![w] = Wrapper(s, t)], rs |-> SetNonBlocking(rs, s)]

\* a call made through `via` ends with a new cooperative socket on real socket s
Wrap(rs, s, t, via) ==
    LET w == FreshWrap(wraps)
        c == Construct(wraps, rs, w, s, t)
    IN  /\ HasFreeWrap(wraps)
        /\ wraps' = c.ws
        /\ socks' = c.rs
        /\ sig' = Ret(Val("socket", w), via, w, NoVal)

\* socket(family, type, proto); d: _socket.getdefaulttimeout()
SockNew(d) ==
    /\ Caller /\ HasFreeSock(socks)
    /\ LET s == FreshSock(socks)
       IN  Wrap([socks EXCEPT ![s] = RealSocket(d.none)], s, d, "socket")
    /\ ops' = ops + 1
    /\ stack' = [stack EXCEPT ![cur] = Called]
    /\ UNCHANGED <<cur, tstate, tparent, tkind, hubG, kbsig, ev, nextId>>
    /\ UNCHANGED extvars

\* fromfd(fd, ...): the real socket keeps the mode of the descriptor it duplicates
FromFd(d, blocking) ==
    /\ Caller /\ HasFreeSock(socks)
    /\ LET s == FreshSock(socks)
       IN  Wrap([socks EXCEPT ![s] = RealSocket(blocking /\ d.none)], s, d, "fromfd")
    /\ ops' = ops + 1
    /\ stack' = [stack EXCEPT ![cur] = Called]
    /\ UNCHANGED <<cur, tstate, tparent, tkind, hubG, kbsig, ev, nextId>>
    /\ UNCHANGED extvars

\* socketpair(): two real sockets, each wrapped
SocketPair(d) ==
    /\ Caller
    /\ LET s1 == FreshSock(socks)
           rs1 == [socks EXCEPT ![s1] = RealSocket(d.none)]
           s2 == FreshSock(rs1)
           rs2 == [rs1 EXCEPT ![s2] = RealSocket(d.none)]
           w1 == FreshWrap(wraps)
           c1 == Construct(wraps, rs2, w1, s1, d)
           w2 == FreshWrap(c1.ws)
           c2 == Construct(c1.ws, c1.rs, w2, s2, d)
       IN  /\ HasFreeSock(socks) /\ HasFreeSock(rs1)
           /\ HasFreeWrap(wraps) /\ HasFreeWrap(c1.ws)
           /\ wraps' = c2.ws
           /\ socks' = c2.rs
           /\ sig' = Ret(Val("socket", w2), "socketpair", w1, NoVal)
    /\ ops' = ops + 1
    /\ stack' = [stack EXCEPT ![cur] = Called]
    /\ UNCHANGED <<cur, tstate, tparent, tkind, hubG, kbsig, ev, nextId>>
    /\ UNCHANGED extvars

\* socket(_sock=x) with x a cooperative socket: x's real socket and timeout are taken
\* over; on a closed x, setblocking(0) is the placeholder's _dummy
SockWrap(x) ==
    /\ Caller /\ Live(x)
    /\ IF IsClosed(x)
       THEN /\ sig' = Exc(SockError("EBADF"), "socket", x, NoVal)
            /\ UNCHANGED <<socks, wraps>>
       ELSE Wrap(socks, wraps[x].sock, wraps[x].timeout, "socket")
    /\ ops' = ops + 1
    /\ stack' = [stack EXCEPT ![cur] = Called]
    /\ UNCHANGED <<cur, tstate, tparent, tkind, hubG, kbsig, ev, nextId>>
    /\ UNCHANGED extvars

\* dup() is socket(_sock=self._sock), makefile() is _fileobject(self.dup(), ...)
Dup(w, d, via) ==
    /\ Caller /\ Live(w)
    /\ IF IsClosed(w)
       THEN /\ sig' = Exc(SockError("EBADF"), via, w, NoVal)
            /\ UNCHANGED <<socks, wraps>>
       ELSE Wrap(socks, wraps[w].sock, d, via)
    /\ ops' = ops + 1
    /\ stack' = [stack EXCEPT ![cur] = Called]
    /\ UNCHANGED <<cur, tstate, tparent, tkind, hubG, kbsig, ev, nextId>>
    /\ UNCHANGED extvars

\* setblocking(flag)
SetBlocking(w, flag) ==
    /\ Idle /\ Live(w)
    /\ wraps' = [wraps EXCEPT ![w].timeout = IF flag THEN TNone ELSE Secs(0)]
    /\ sig' = RetF(None, [From("setblocking", w) EXCEPT !.hv = flag], NoVal)
    /\ UNCHANGED <<cur, tstate, tparent, tkind, stack, hubG, kbsig, ev, nextId, ops, socks>>
    /\ UNCHANGED extvars

\* the values settimeout is called with: None, and a negative number among them
HowLongs == Timeouts \cup {Secs(-1)}

\* settimeout(howlong)
SetTimeout(w, howlong) ==
    /\ Idle /\ Live(w)
    /\ IF ~howlong.none /\ howlong.secs < 0
       THEN /\ sig' = Exc(ValueError, "settimeout", w, NoVal)
            /\ wraps' = wraps
       ELSE /\ sig' = Ret(None, "settimeout", w, NoVal)
            /\ wraps' = [wraps EXCEPT ![w].timeout = howlong]
    /\ UNCHANGED <<cur, tstate, tparent, tkind, stack, hubG, kbsig, ev, nextId, ops, socks>>
    /\ UNCHANGED extvars

\* gettimeout()
GetTimeout(w) ==
    /\ Idle /\ Live(w)
    /\ sig' = Ret(Val(IF wraps[w].timeout.none THEN "None" ELSE "float", wraps[w].timeout.secs),
                  "gettimeout", w, NoVal)
    /\ UNCHANGED <<cur, tstate, tparent, tkind, stack, hubG, kbsig, ev, nextId, ops, socks, wraps>>
    /\ UNCHANGED extvars

\* close(): self._sock = _closedsocket()
Close(w) ==
    /\ Caller /\ Live(w)
    /\ wraps' = [wraps EXCEPT ![w].sock = NoSock]
    /\ sig' = Ret(None, "close", w, NoVal)
    /\ stack' = [stack EXCEPT ![cur] = Called]
    /\ ops' = ops + 1
    /\ UNCHANGED <<cur, tstate, tparent, tkind, hubG, kbsig, ev, nextId, socks>>
    /\ UNCHANGED extvars

\* user code catches the exception of the call it made and goes on
Catch ==
    /\ Running /\ TopF.k = "body" /\ sig.k = "exc"
    /\ sig' = NoSig
    /\ UNCHANGED <<cur, tstate, tparent, tkind, stack, hubG, kbsig, ev, nextId, ops, socks, wraps>>
    /\ UNCHANGED extvars

\* ---------------------------------------------------------------- socket I/O
RecvFns == {"recv", "recvfrom", "recv_into", "recvfrom_into"}

\* the local variables of the socket call the current greenlet is in
Loc == iol[cur]

\* the deadline of a wait that begins now with the timeout t
Deadline(t) == IF t.none THEN NoTime ELSE now + t.secs

\* what a call on w._sock answers when the OS answers r: the placeholder of a
\* closed socket raises EBADF itself
OsAnswer(w, r) == IF IsClosed(w) THEN "EBADF" ELSE r

\* TypeError: _dummy(*args) takes no keyword argument
TypeError == Val("TypeError", NoId)

\* except error, ex: if ex[0] != EWOULDBLOCK or timeout == 0.0: raise
RaiseAtOnceErrorsOnly(o, t) == o # "EWOULDBLOCK"
RaiseAtOnce(o, t) == o # "EWOULDBLOCK" \/ t = Secs(0)

\* wait_read / wait_write / wait_readwrite (fileno, timeout=t) called by a socket
\* method, whose frame f goes on the stack base and whose locals are loc
IoWait(fn, t, base, f, loc) ==
    /\ CanSwitch
    /\ nextId < MaxIds
    /\ ev' = [ev EXCEPT ![nextId] = FdEvent(fn, cur, SockTimeout, ~t.none)]
    /\ nextId' = nextId + 1
    /\ iol' = [iol EXCEPT ![cur] = [loc EXCEPT !.due = Deadline(t)]]
    /\ HubSwitch([stack EXCEPT ![cur] =
           Push(Push(base, f), Frame(fn, "switched", nextId, NoVal, FALSE, ~t.none))])

\* a socket method ends with the value or exception s, which goes to the frame
\* on top of base; loc: the locals of that frame
IoReturn(s, base, loc) ==
    /\ sig' = s
    /\ stack' = [stack EXCEPT ![cur] = base]
    /\ iol' = [iol EXCEPT ![cur] = loc]
    /\ UNCHANGED <<cur, tstate, tparent, tkind, hubG, ev, nextId>>

\* a socket method called by user code ends
IoEnd(s, base) == IoReturn(s, base, NoLocals)

\* the locals of sendall outlive the send it calls
Kept(base, loc) == IF Top(base).k = "sendall" THEN [loc EXCEPT !.due = NoTime] ELSE NoLocals

\* time passes while the reactor waits for events that have a timeout; a timeout
\* fires when it is due
Tick ==
    /\ InDispatch
    /\ now < MaxTime
    /\ \E i \in Ids : Armed(i) /\ ev[i].tmo
    /\ \A i \in Ids : (Armed(i) /\ ev[i].tmo) => ~TimedOut(i)
    /\ now' = now + 1
    /\ UNCHANGED <<hubvars, sockvars, iol, is_windows, thrvars, hookvars>>

AcceptAnswers == {"ok", "EWOULDBLOCK", "ECONNABORTED"}

\* one round of accept()'s loop on w by the current greenlet, whose stack without
\* the accept frame is base; d: _socket.getdefaulttimeout()
AcceptTry(w, r, d, base, loc) ==
    LET f == Frame("accept", "loop", w, NoVal, FALSE, ~wraps[w].timeout.none)
        o == OsAnswer(w, r)
    IN  IF o = "ok"
        THEN \* return socket(_sock=client), addr
             /\ HasFreeSock(socks)
             /\ LET client == FreshSock(socks)
                IN  Wrap([socks EXCEPT ![client] = RealSocket(d.none)], client, d, "accept")
             /\ stack' = [stack EXCEPT ![cur] = base]
             /\ iol' = [iol EXCEPT ![cur] = NoLocals]
             /\ UNCHANGED <<cur, tstate, tparent, tkind, hubG, ev, nextId>>
        ELSE IF RaiseAtOnce(o, wraps[w].timeout)
        THEN /\ IoEnd(ExcF(SockError(o), f, NoVal), base)
             /\ UNCHANGED <<socks, wraps>>
        ELSE \* wait_read(self._sock.fileno(), timeout=self.timeout)
             /\ IoWait("wait_read", wraps[w].timeout, base, f, loc)
             /\ UNCHANGED <<socks, wraps>>

\* accept() called on w
Accept(w, r, d) ==
    /\ Caller /\ Live(w)
    /\ ops' = ops + 1
    /\ AcceptTry(w, r, d, Called, Locals(now, NoTime, 0, 0, NoTime))
    /\ UNCHANGED <<kbsig, now, is_windows, thrvars, hookvars>>

\* accept() after its wait_read: the exception of the wait goes to the caller;
\* after a return the loop tries again
AcceptResume(r, d) ==
    /\ Running /\ TopF.k = "accept" /\ sig.k # "none"
    /\ IF sig.k = "exc"
       THEN /\ IoEnd(ExcF(sig.v, TopF, NoVal), Pop(stack[cur]))
            /\ UNCHANGED <<socks, wraps>>
       ELSE AcceptTry(TopF.id, r, d, Pop(stack[cur]), Loc)
    /\ UNCHANGED <<kbsig, ops, now, is_windows, thrvars, hookvars>>

RecvAnswers == {"ok", "EWOULDBLOCK", "ECONNRESET"}

\* one round of the loop of recv / recvfrom / recv_into / recvfrom_into on w
RecvTry(fn, w, r, base, loc) ==
    LET f == Frame(fn, "loop", w, NoVal, FALSE, ~wraps[w].timeout.none)
        o == OsAnswer(w, r)
    IN  IF o = "ok" THEN IoEnd(RetF(Val("data", w), f, NoVal), base)
        ELSE IF RaiseAtOnce(o, wraps[w].timeout)
        THEN IoEnd(ExcF(SockError(o), f, NoVal), base)
        ELSE \* wait_read(self.fileno(), timeout=self.timeout)
             IoWait("wait_read", wraps[w].timeout, base, f, loc)

\* recv(...), recvfrom(...), recv_into(...) or recvfrom_into(...) called on w
Recv(fn, w, r) ==
    /\ Caller /\ Live(w)
    /\ ops' = ops + 1
    /\ RecvTry(fn, w, r, Called, Locals(now, NoTime, 0, 0, NoTime))
    /\ UNCHANGED <<kbsig, sockvars, now, is_windows, thrvars, hookvars>>

\* recv* after its wait_read: the exception of the wait goes to the caller;
\* after a return the loop tries again
RecvResume(r) ==
    /\ Running /\ TopF.k \in RecvFns /\ sig.k # "none"
    /\ IF sig.k = "exc"
       THEN IoEnd(ExcF(sig.v, TopF, NoVal), Pop(stack[cur]))
       ELSE RecvTry(TopF.k, TopF.id, r, Pop(stack[cur]), Loc)
    /\ UNCHANGED <<kbsig, ops, sockvars, now, is_windows, thrvars, hookvars>>

SendAnswers == {"ok", "EWOULDBLOCK", "EPIPE"}

\* the byte counts the OS may report for a send of loc's unsent bytes
Sendable(loc) == {n \in 0 .. (loc.len - loc.sent) : loc.len > loc.sent => n > 0}

\* send(data, flags, timeout) on w: the first attempt, with the timeout t in
\* effect, given by keyword or not
SendTry(w, t, kw, r, n, base, loc) ==
    LET f == Frame("send", "first", w, NoVal, kw, ~t.none)
        o == OsAnswer(w, r)
    IN  IF o = "ok" THEN IoReturn(RetF(Val("int", n), f, NoVal), base, Kept(base, loc))
        ELSE IF RaiseAtOnce(o, t)
        THEN IoReturn(ExcF(SockError(o), f, NoVal), base, Kept(base, loc))
        ELSE \* wait_write(self._sock.fileno(), timeout=timeout)
             IoWait("wait_write", t, base, f, loc)

\* send(data) or send(data, timeout=t) called on w, with len bytes of data;
\* the send of a closed socket is the placeholder's _dummy(*args)
Send(w, len, kw, t, r, n) ==
    /\ Caller /\ Live(w)
    /\ ops' = ops + 1
    /\ LET loc == Locals(now, NoTime, 0, len, NoTime)
       IN  /\ n \in Sendable(loc)
           /\ IF IsClosed(w) /\ kw
              THEN IoEnd(Exc(TypeError, "send", w, NoVal), Called)
              ELSE SendTry(w, IF kw THEN t ELSE wraps[w].timeout, kw, r, n, Called, loc)
    /\ UNCHANGED <<kbsig, sockvars, now, is_windows, thrvars, hookvars>>

\* the second attempt of send or sendto, which the OS answers with o: a second
\* EWOULDBLOCK makes it return 0
SendRetryRaises(f, o, n) ==
    IF o = "ok" THEN RetF(Val("int", n), f, Val(o, NoId))
    ELSE ExcF(SockError(o), f, Val(o, NoId))
SendRetry(f, o, n) ==
    IF o = "ok" THEN RetF(Val("int", n), f, Val(o, NoId))
    ELSE IF o = "EWOULDBLOCK" THEN RetF(Val("int", 0), f, Val(o, NoId))
    ELSE ExcF(SockError(o), f, Val(o, NoId))

\* send after its wait_write: the exception of the wait goes to the caller;
\* after a return it tries once more. The locals stay for a calling sendall
SendResume(r, n) ==
    /\ Running /\ TopF.k = "send" /\ sig.k # "none"
    /\ n \in Sendable(Loc)
    /\ IoReturn(IF sig.k = "exc" THEN ExcF(sig.v, TopF, NoVal)
                ELSE SendRetry([TopF EXCEPT !.pc = "second"], OsAnswer(TopF.id, r), n),
                Pop(stack[cur]), Kept(Pop(stack[cur]), Loc))
    /\ UNCHANGED <<kbsig, ops, sockvars, now, is_windows, thrvars, hookvars>>

\* sendto: if ex[0] != EWOULDBLOCK or timeout == 0.0: raise -- the name timeout
\* is the class _socket.timeout here, which is equal to no number
SendtoRaiseAtOnce(o, t) == o # "EWOULDBLOCK"

\* sendto(*args) on w: the first attempt
SendtoTry(w, r, n, base, loc) ==
    LET t == wraps[w].timeout
        f == Frame("sendto", "first", w, NoVal, FALSE, ~t.none)
        o == OsAnswer(w, r)
    IN  IF o = "ok" THEN IoEnd(RetF(Val("int", n), f, NoVal), base)
        ELSE IF SendtoRaiseAtOnce(o, t)
        THEN IoEnd(ExcF(SockError(o), f, NoVal), base)
        ELSE \* wait_write(self.fileno(), timeout=self.timeout)
             IoWait("wait_write", t, base, f, loc)

\* sendto(data, address) called on w, with len bytes of data
Sendto(w, len, r, n) ==
    /\ Caller /\ Live(w)
    /\ ops' = ops + 1
    /\ LET loc == Locals(now, NoTime, 0, len, NoTime)
       IN  /\ n \in Sendable(loc)
           /\ SendtoTry(w, r, n, Called, loc)
    /\ UNCHANGED <<kbsig, sockvars, now, is_windows, thrvars, hookvars>>

\* sendto after its wait_write: the exception of the wait goes to the caller;
\* after a return it tries once more
SendtoResume(r, n) ==
    /\ Running /\ TopF.k = "sendto" /\ sig.k # "none"
    /\ n \in Sendable(Loc)
    /\ IoEnd(IF sig.k = "exc" THEN ExcF(sig.v, TopF, NoVal)
             ELSE SendRetry([TopF EXCEPT !.pc = "second"], OsAnswer(TopF.id, r), n),
             Pop(stack[cur]))
    /\ UNCHANGED <<kbsig, ops, sockvars, now, is_windows, thrvars, hookvars>>

\* sendall after a send, with loc.sent bytes sent: return, go on, or raise timeout
SendallStepNoDeadline(loc) ==
    IF loc.sent >= loc.len THEN "done" ELSE "again"
SendallStep(loc) ==
    IF loc.end = NoTime
    THEN \* while data_sent < len(data)
         IF loc.sent < loc.len THEN "again" ELSE "done"
    ELSE IF loc.sent >= loc.len THEN "done"
         ELSE \* timeleft = end - time.time(); if timeleft <= 0: raise timeout
              IF loc.end - now <= 0 THEN "timeout" ELSE "again"

\* the timeout the next send of sendall is called with
Timeleft(w, loc) == IF loc.end = NoTime THEN wraps[w].timeout ELSE Secs(loc.end - now)

\* sendall(data) called on w, with len bytes of data; the sendall of a closed
\* socket is the placeholder's _dummy
Sendall(w, len, r, n) ==
    /\ Caller /\ Live(w)
    /\ ops' = ops + 1
    /\ LET t == wraps[w].timeout
           f == Frame("sendall", "loop", w, Val("len", len), FALSE, ~t.none)
           loc == Locals(now, Deadline(t), 0, len, NoTime)
       IN  /\ n \in Sendable(loc)
           /\ IF IsClosed(w)
              THEN IoEnd(ExcF(SockError("EBADF"), f, NoVal), Called)
              ELSE IF t.none /\ len = 0
              THEN IoEnd(RetF(None, f, NoVal), Called)
              ELSE SendTry(w, t, ~t.none, r, n, Push(Called, f), loc)
    /\ UNCHANGED <<kbsig, sockvars, now, is_windows, thrvars, hookvars>>

\* sendall after a send: data_sent += ...; then the loop's test
SendallResume(r, n) ==
    /\ Running /\ TopF.k = "sendall" /\ sig.k # "none"
    /\ IF sig.k = "exc"
       THEN IoEnd(ExcF(sig.v, TopF, NoVal), Pop(stack[cur]))
       ELSE LET loc == [Loc EXCEPT !.sent = @ + sig.v.id]
                step == SendallStep(loc)
            IN  IF step = "done" THEN IoEnd(RetF(None, TopF, NoVal), Pop(stack[cur]))
                ELSE IF step = "timeout"
                THEN IoEnd(ExcF(SockTimeout, TopF, NoVal), Pop(stack[cur]))
                ELSE /\ n \in Sendable(loc)
                     /\ SendTry(TopF.id, Timeleft(TopF.id, loc), loc.end # NoTime, r, n,
                                stack[cur], loc)
    /\ UNCHANGED <<kbsig, ops, sockvars, now, is_windows, thrvars, hookvars>>

\* gaierror, a subclass of error, and the NameError of an undefined global
GaiError  == Val("gaierror", NoId)
NameError == Val("NameError", NoId)

\* the hosts of an address: a dotted IPv4 number, a name without dots that the
\* system resolver knows, and one it does not know
Hosts == {"ip", "known", "unknown"}
\* and a dotted host name, which gethostbyname gives to gevent.dns
AllHosts == Hosts \cup {"dotted"}

\* gethostbyname(hostname) fails: _socket.gethostbyname raises gaierror
ResolveFails(host) == host = "unknown"

ConnectAnswers == {"ok", "EINPROGRESS", "EINVAL", "ECONNREFUSED"}

\* result in (EWOULDBLOCK, EINPROGRESS, EALREADY) or (result == EINVAL and is_windows)
InProgress(o) == o = "EINPROGRESS" \/ (o = "EINVAL" /\ is_windows)

\* timeleft = end - time.time(), the timeout of connect's next wait_readwrite
ConnectTimeleftFull(loc) == Secs(loc.end - loc.began)
ConnectTimeleft(loc) == Secs(loc.end - now)

\* one round of connect on w: the direct call for a timeout of 0, else
\* getsockopt(SO_ERROR) and connect_ex, both answered by r
ConnectTry(w, t, r, base, loc) ==
    LET f == Frame("connect", "loop", w, NoVal, t = Secs(0), ~t.none)
        o == OsAnswer(w, r)
    IN  IF o = "ok" THEN IoEnd(RetF(None, f, NoVal), base)
        ELSE IF t = Secs(0) \/ ~InProgress(o)
        THEN IoEnd(ExcF(SockError(o), f, NoVal), base)
        ELSE IF loc.end = NoTime
        THEN \* wait_readwrite(sock.fileno())
             IoWait("wait_readwrite", TNone, base, f, loc)
        ELSE IF loc.end - now <= 0
        THEN \* raise timeout('timed out')
             IoEnd(ExcF(SockTimeout, f, NoVal), base)
        ELSE \* wait_readwrite(sock.fileno(), timeout=timeleft)
             IoWait("wait_readwrite", ConnectTimeleft(loc), base, f, loc)

\* the time the resolver of gevent.dns gives a query before it fails
DnsTimeout == MaxTime

\* gethostbyname(hostname) for a dotted host name: resolve_ipv4(hostname) of
\* gevent.dns suspends the greenlet until the resolver has the answer or gives up
ResolveWait(w, base) ==
    /\ CanSwitch
    /\ nextId < MaxIds
    /\ ev' = [ev EXCEPT ![nextId] =
           Event("armed", "dns", "_wait_helper", cur, GaiError, TRUE, "resolve_ipv4")]
    /\ nextId' = nextId + 1
    /\ iol' = [iol EXCEPT ![cur] = Locals(now, NoTime, 0, 0, now + DnsTimeout)]
    /\ HubSwitch([stack EXCEPT ![cur] =
           Push(Push(base, Frame("connect", "resolve", w, NoVal, FALSE,
                                 ~wraps[w].timeout.none)),
                Frame("resolve_ipv4", "switched", nextId, NoVal, FALSE, TRUE))])

\* resolve_ipv4 resumed: with the answer to its query, or by an exception
ResolveResume ==
    /\ Running /\ TopF.k = "resolve_ipv4" /\ sig.k # "none"
    /\ ev' = Cancel(ev, TopF.id)
    /\ stack' = [stack EXCEPT ![cur] = Pop(@)]
    /\ sig' = IF sig.k = "exc" THEN ExcF(sig.v, TopF, NoVal)
              ELSE IF sig.v = EvVal(TopF.id) THEN RetF(Val("address", NoId), TopF, sig.v)
              ELSE ExcF(ValueError, TopF, sig.v)
    /\ UNCHANGED <<cur, tstate, tparent, tkind, hubG, kbsig, nextId, ops>>
    /\ UNCHANGED <<sockvars, extvars>>

\* connect((host, port)) by the current greenlet, whose stack below the connect
\* frame is base: gethostbyname comes first
ConnectCall(w, host, r, base) ==
    LET t == wraps[w].timeout
        loc == Locals(now, Deadline(t), 0, 0, NoTime)
    IN  IF ResolveFails(host)
        THEN IoEnd(Exc(GaiError, "connect", w, NoVal), base)
        ELSE IF host = "dotted"
        THEN ResolveWait(w, base)
        ELSE ConnectTry(w, t, r, base, loc)

\* connect(address) called on w
Connect(w, host, r) ==
    /\ Caller /\ Live(w)
    /\ ops' = ops + 1
    /\ ConnectCall(w, host, r, Called)
    /\ UNCHANGED <<kbsig, sockvars, now, is_windows, thrvars, hookvars>>

\* connect after gethostbyname, where end is fixed, or after its wait_readwrite
ConnectResume(r) ==
    /\ Running /\ TopF.k = "connect" /\ sig.k # "none"
    /\ IF sig.k = "exc"
       THEN IoEnd(ExcF(sig.v, TopF, NoVal), Pop(stack[cur]))
       ELSE IF TopF.pc = "resolve"
       THEN ConnectTry(TopF.id, wraps[TopF.id].timeout, r, Pop(stack[cur]),
                       Locals(Loc.began, Deadline(wraps[TopF.id].timeout), 0, 0, NoTime))
       ELSE ConnectTry(TopF.id, IF TopF.tm THEN Secs(1) ELSE TNone, r, Pop(stack[cur]), Loc)
    /\ UNCHANGED <<kbsig, ops, sockvars, now, is_windows, thrvars, hookvars>>

\* fileno() and the other methods delegated to self._sock
Fileno(w) ==
    /\ Caller /\ Live(w)
    /\ ops' = ops + 1
    /\ sig' = IF IsClosed(w) THEN Exc(SockError("EBADF"), "fileno", w, NoVal)
              ELSE Ret(Val("fd", wraps[w].sock), "fileno", w, NoVal)
    /\ stack' = [stack EXCEPT ![cur] = Called]
    /\ UNCHANGED <<cur, tstate, tparent, tkind, hubG, kbsig, ev, nextId, sockvars, extvars>>

\* ---------------------------------------------------------------- connect_ex, create_connection
\* the errnos of the OS errors that connect raises as plain error objects
Errnos == {"EBADF", "EINPROGRESS", "EINVAL", "ECONNREFUSED"}

\* type(ex) is error
IsPlainError(v) == v.id = NoId /\ v.ty \in Errnos

\* isinstance(ex, error): timeout and gaierror are subclasses of error
IsError(v) == IsPlainError(v) \/ v = SockTimeout \/ v = GaiError

\* connect_ex(address) called on w: return self.connect(address) or 0
ConnectEx(w, host, r) ==
    /\ Caller /\ Live(w)
    /\ ops' = ops + 1
    /\ ConnectCall(w, host, r,
                   Push(Called, Frame("connect_ex", "try", w, NoVal, FALSE, FALSE)))
    /\ UNCHANGED <<kbsig, sockvars, now, is_windows, thrvars, hookvars>>

\* except timeout: return EAGAIN -- the name EAGAIN is not defined on Windows
OnTimeout(f, windows) ==
    IF windows THEN ExcF(NameError, f, NoVal) ELSE RetF(SockError("EAGAIN"), f, NoVal)

\* what connect_ex makes of the outcome s of connect
ConnectExResult(f, s) ==
    IF s.k = "ret" THEN RetF(Val("int", 0), f, NoVal)
    ELSE IF s.v = SockTimeout THEN OnTimeout(f, is_windows)
    ELSE IF IsPlainError(s.v) THEN \* return ex[0]
         RetF(s.v, f, NoVal)
    ELSE \* gaierror is not silenced by connect_ex
         ExcF(s.v, f, NoVal)

\* connect_ex after connect
ConnectExResume ==
    /\ Running /\ TopF.k = "connect_ex" /\ sig.k # "none"
    /\ sig' = ConnectExResult(TopF, sig)
    /\ stack' = [stack EXCEPT ![cur] = Pop(@)]
    /\ UNCHANGED <<cur, tstate, tparent, tkind, hubG, kbsig, ev, nextId, ops>>
    /\ UNCHANGED <<sockvars, extvars>>

\* error("getaddrinfo returns an empty list")
EmptyList == Val("getaddrinfo returns an empty list", NoId)

\* except error, msg: if sock is not None: sock.close()
CloseFailedSkipped(ws, w) == ws
CloseFailed(ws, w) == [ws EXCEPT ![w].sock = NoSock]

\* one round of create_connection's loop up to the call of connect: the socket
\* is made and, if a timeout was given, sock.settimeout(timeout) called;
\* ws: the cooperative sockets so far, t: the timeout the new socket ends with
CcAttempt(ws, base, pc, more, given, t, msg) ==
    /\ HasFreeSock(socks) /\ HasFreeWrap(ws)
    /\ LET s == FreshSock(socks)
           w == FreshWrap(ws)
           c == Construct(ws, [socks EXCEPT ![s] = RealSocket(t.none /\ ~given)], w, s, t)
       IN  /\ wraps' = c.ws
           /\ socks' = c.rs
           /\ stack' = [stack EXCEPT ![cur] =
                  Push(base, Frame("create_connection", pc, w, msg, more, given))]
    /\ sig' = NoSig
    /\ UNCHANGED <<cur, tstate, tparent, tkind, hubG, ev, nextId>>

\* create_connection(address, timeout): getaddrinfo gives n results; given:
\* a timeout was passed, t; d: _socket.getdefaulttimeout()
CreateConnection(n, given, t, d) ==
    /\ Caller
    /\ ops' = ops + 1
    /\ IF n = 0
       THEN \* raise error, msg
            /\ sig' = Exc(EmptyList, "create_connection", NoSock, NoVal)
            /\ stack' = [stack EXCEPT ![cur] = Called]
            /\ UNCHANGED <<cur, tstate, tparent, tkind, hubG, ev, nextId, sockvars>>
       ELSE CcAttempt(wraps, Called, "first", n > 1, given, IF given THEN t ELSE d, EmptyList)
    /\ UNCHANGED <<kbsig, extvars>>

\* create_connection: sock.connect(sa), sa being a numeric address
CcConnect(r) ==
    /\ Running /\ TopF.k = "create_connection" /\ sig.k = "none"
    /\ ConnectCall(TopF.id, "ip", r, stack[cur])
    /\ UNCHANGED <<kbsig, ops, sockvars, now, is_windows, thrvars, hookvars>>

\* create_connection after connect: return sock; or close it and go on with the
\* next address, or raise the last error; any other exception passes through
CcResume ==
    /\ Running /\ TopF.k = "create_connection" /\ sig.k # "none"
    /\ IF sig.k = "exc" /\ IsError(sig.v) /\ TopF.hv
       THEN CcAttempt(CloseFailed(wraps, TopF.id), Pop(stack[cur]), "second", FALSE,
                      TopF.tm, wraps[TopF.id].timeout, sig.v)
       ELSE /\ sig' = IF sig.k = "ret" THEN RetF(Val("socket", TopF.id), TopF, NoVal)
                      ELSE ExcF(sig.v, TopF, NoVal)
            /\ wraps' = IF sig.k = "exc" /\ IsError(sig.v)
                        THEN CloseFailed(wraps, TopF.id) ELSE wraps
            /\ stack' = [stack EXCEPT ![cur] = Pop(@)]
            /\ UNCHANGED <<cur, tstate, tparent, tkind, hubG, ev, nextId, socks>>
    /\ UNCHANGED <<kbsig, ops, extvars>>

\* ---------------------------------------------------------------- threads
\* get_hub() called by thread th: hub = _threadlocal.hub succeeds and the hub is
\* returned, or it raises AttributeError
GetHubTry(th) ==
    /\ thpc[th] = "idle"
    /\ IF threadlocal # NoLocal /\ localhub[threadlocal][th] # NoHub
       THEN /\ thgot' = [thgot EXCEPT ![th] = @ \cup {localhub[threadlocal][th]}]
            /\ thpc' = thpc
       ELSE /\ thpc' = [thpc EXCEPT ![th] = "except"]
            /\ thgot' = thgot
    /\ UNCHANGED <<threadlocal, localhub, nlocals, nhubs>>
    /\ UNCHANGED <<hubvars, sockvars, iovars, hookvars>>

\* except AttributeError: _threadlocal = threading.local()
GetHubExcept(th) ==
    /\ thpc[th] = "except"
    /\ nlocals < MaxHubs
    /\ threadlocal' = nlocals
    /\ nlocals' = nlocals + 1
    /\ thpc' = [thpc EXCEPT ![th] = "local"]
    /\ UNCHANGED <<localhub, thgot, nhubs>>
    /\ UNCHANGED <<hubvars, sockvars, iovars, hookvars>>

\* hub = _threadlocal.hub = Hub(); return hub
GetHubNew(th) ==
    /\ thpc[th] = "local"
    /\ nhubs < MaxHubs
    /\ localhub' = [localhub EXCEPT ![threadlocal][th] = nhubs]
    /\ nhubs' = nhubs + 1
    /\ thgot' = [thgot EXCEPT ![th] = @ \cup {nhubs}]
    /\ thpc' = [thpc EXCEPT ![th] = "idle"]
    /\ UNCHANGED <<threadlocal, nlocals>>
    /\ UNCHANGED <<hubvars, sockvars, iovars, hookvars>>

\* ---------------------------------------------------------------- spec
Next ==
    \/ Sleep
    \/ \E fn \in WaitFns, tmo \in BOOLEAN : Wait(fn, tmo)
    \/ SwitchCall
    \/ SleepResume
    \/ WaitResume
    \/ SwitchResume
    \/ Spawn
    \/ \E g \in Tasks : Kill(g)
    \/ KillResume
    \/ \E g \in Tasks : TimerSwitch(g)
    \/ TimerCall
    \/ Continue
    \/ Raise
    \/ \E silent \in BOOLEAN, secs \in BOOLEAN : TimeoutEnter(silent, secs)
    \/ TimeoutExit
    \/ \E hv \in BOOLEAN, secs \in BOOLEAN : WithTimeout(hv, secs)
    \/ FuncReturn
    \/ WithTimeoutEnd
    \/ BodyEnd
    \/ Finish
    \/ MainExit
    \/ RunStart
    \/ \E i \in Ids : Fire(i)
    \/ \E i \in Ids : FireTimeout(i)
    \/ CallbackReturn
    \/ \E result \in {-1, 0, 1} : DispatchReturn(result)
    \/ \E goon \in BOOLEAN : CallbackRaised(goon)

vars == <<hubvars, sockvars, extvars>>
Spec == Init /\ [][Next]_vars

\* programs that use cooperative sockets from the main greenlet
SockNext ==
    \/ \E d \in Timeouts : SockNew(d)
    \/ \E d \in Timeouts, blocking \in BOOLEAN : FromFd(d, blocking)
    \/ \E d \in Timeouts : SocketPair(d)
    \/ \E x \in Socks : SockWrap(x)
    \/ \E w \in Socks, d \in Timeouts, via \in {"dup", "makefile"} : Dup(w, d, via)
    \/ \E w \in Socks, r \in AcceptAnswers, d \in Timeouts : Accept(w, r, d)
    \/ \E r \in AcceptAnswers, d \in Timeouts : AcceptResume(r, d)
    \/ \E w \in Socks, flag \in BOOLEAN : SetBlocking(w, flag)
    \/ \E w \in Socks, howlong \in HowLongs : SetTimeout(w, howlong)
    \/ \E w \in Socks : GetTimeout(w)
    \/ \E w \in Socks : Close(w)
    \/ Tick
    \/ Catch
    \/ Continue
    \/ WaitResume
    \/ MainExit
    \/ RunStart
    \/ \E i \in Ids : Fire(i)
    \/ \E i \in Ids : FireTimeout(i)
    \/ CallbackReturn
    \/ \E result \in {-1, 0, 1} : DispatchReturn(result)

SockSpec == Init /\ [][SockNext]_vars

\* programs that do I/O on cooperative sockets from the main greenlet
IoNext ==
    \/ \E d \in Timeouts : SockNew(d)
    \/ \E w \in Socks : Close(w)
    \/ \E fn \in RecvFns, w \in Socks, r \in RecvAnswers : Recv(fn, w, r)
    \/ \E r \in RecvAnswers : RecvResume(r)
    \/ \E w \in Socks, len \in 0 .. MaxLen, kw \in BOOLEAN,
          r \in SendAnswers, n \in 0 .. MaxLen :
          \E t \in IF kw THEN Timeouts ELSE {TNone} : Send(w, len, kw, t, r, n)
    \/ \E r \in SendAnswers, n \in 0 .. MaxLen : SendResume(r, n)
    \/ \E w \in Socks, len \in 0 .. MaxLen, r \in SendAnswers, n \in 0 .. MaxLen :
          Sendall(w, len, r, n)
    \/ \E r \in SendAnswers, n \in 0 .. MaxLen : SendallResume(r, n)
    \/ \E w \in Socks, host \in Hosts, r \in ConnectAnswers : Connect(w, host, r)
    \/ \E r \in ConnectAnswers : ConnectResume(r)
    \/ \E w \in Socks, r \in AcceptAnswers : Accept(w, r, TNone)
    \/ \E r \in AcceptAnswers : AcceptResume(r, TNone)
    \/ \E w \in Socks : Fileno(w)
    \/ Tick
    \/ Catch
    \/ Continue
    \/ WaitResume
    \/ MainExit
    \/ RunStart
    \/ \E i \in Ids : Fire(i)
    \/ \E i \in Ids : FireTimeout(i)
    \/ CallbackReturn
    \/ \E result \in {-1, 0, 1} : DispatchReturn(result)

IoSpec == Init /\ [][IoNext]_vars

\* programs that call send and sendto on cooperative sockets from the main greenlet
SendNext ==
    \/ \E d \in Timeouts : SockNew(d)
    \/ \E w \in Socks : Close(w)
    \/ \E w \in Socks, len \in 0 .. MaxLen, kw \in BOOLEAN,
          r \in SendAnswers, n \in 0 .. MaxLen :
          \E t \in IF kw THEN Timeouts ELSE {TNone} : Send(w, len, kw, t, r, n)
    \/ \E r \in SendAnswers, n \in 0 .. MaxLen : SendResume(r, n)
    \/ \E w \in Socks, len \in 0 .. MaxLen, r \in SendAnswers, n \in 0 .. MaxLen :
          Sendto(w, len, r, n)
    \/ \E r \in SendAnswers, n \in 0 .. MaxLen : SendtoResume(r, n)
    \/ Tick
    \/ Catch
    \/ Continue
    \/ WaitResume
    \/ MainExit
    \/ RunStart
    \/ \E i \in Ids : Fire(i)
    \/ \E i \in Ids : FireTimeout(i)
    \/ CallbackReturn
    \/ \E result \in {-1, 0, 1} : DispatchReturn(result)

SendSpec == Init /\ [][SendNext]_vars

\* hub programs whose greenlets have switch_out hooks
HookNext ==
    \/ \E hook \in {"returns", "raises"} : SetSwitchOut(hook)
    \/ Sleep
    \/ SwitchCall
    \/ SleepResume
    \/ SwitchResume
    \/ Spawn
    \/ TimerCall
    \/ Continue
    \/ Catch
    \/ BodyEnd
    \/ Finish
    \/ MainExit
    \/ RunStart
    \/ \E i \in Ids : Fire(i)
    \/ CallbackReturn
    \/ \E result \in {-1, 0, 1} : DispatchReturn(result)
    \/ \E goon \in BOOLEAN : CallbackRaised(goon)

HookSpec == Init /\ [][HookNext]_vars

\* hub programs that register signal handlers and receive signals
SignalNext ==
    \/ Signal(SIGTERM)
    \/ \E i \in 1 .. MaxSigs + 1 : FireSignal(i)
    \/ DeliverResume
    \/ Sleep
    \/ SleepResume
    \/ Spawn
    \/ Raise
    \/ Continue
    \/ Catch
    \/ BodyEnd
    \/ Finish
    \/ MainExit
    \/ RunStart
    \/ \E i \in Ids : Fire(i)
    \/ CallbackReturn
    \/ \E result \in {-1, 0, 1} : DispatchReturn(result)
    \/ \E goon \in BOOLEAN : CallbackRaised(goon)

SignalSpec == Init /\ [][SignalNext]_vars

\* the timeouts of the sockets that connect: a long one among them
LongTimeouts == Timeouts \cup {Secs(MaxTime)}

\* programs that connect cooperative sockets to hosts given by number or by name
DeadlineNext ==
    \/ \E d \in LongTimeouts : SockNew(d)
    \/ \E w \in Socks, host \in AllHosts, r \in ConnectAnswers : Connect(w, host, r)
    \/ ResolveResume
    \/ \E r \in ConnectAnswers : ConnectResume(r)
    \/ Tick
    \/ Catch
    \/ Continue
    \/ WaitResume
    \/ MainExit
    \/ RunStart
    \/ \E i \in Ids : Fire(i)
    \/ \E i \in Ids : FireTimeout(i)
    \/ CallbackReturn
    \/ \E result \in {-1, 0, 1} : DispatchReturn(result)

DeadlineSpec == Init /\ [][DeadlineNext]_vars

\* programs that connect cooperative sockets from the main greenlet, on Windows
\* or elsewhere
ConnNext ==
    \/ \E d \in Timeouts : SockNew(d)
    \/ \E w \in Socks, host \in Hosts, r \in ConnectAnswers : ConnectEx(w, host, r)
    \/ \E r \in ConnectAnswers : ConnectResume(r)
    \/ ConnectExResume
    \/ \E n \in 0 .. MaxSocks, given \in BOOLEAN, t \in Timeouts :
          CreateConnection(n, given, t, TNone)
    \/ \E r \in ConnectAnswers : CcConnect(r)
    \/ CcResume
    \/ TimeoutEnter(FALSE, TRUE)
    \/ TimeoutExit
    \/ Tick
    \/ Catch
    \/ Continue
    \/ WaitResume
    \/ MainExit
    \/ RunStart
    \/ \E i \in Ids : Fire(i)
    \/ \E i \in Ids : FireTimeout(i)
    \/ CallbackReturn
    \/ \E result \in {-1, 0, 1} : DispatchReturn(result)

ConnSpec == AnyInit /\ [][ConnNext]_vars

\* programs whose threads call get_hub()
ThreadNext ==
    \/ \E th \in Threads : GetHubTry(th)
    \/ \E th \in Threads : GetHubExcept(th)
    \/ \E th \in Threads : GetHubNew(th)

ThreadSpec == Init /\ [][ThreadNext]_vars

\* ---------------------------------------------------------------- properties
\* greenlet t has a frame of one of the kinds ks that holds event / marker i
HasFrame(t, ks, i) ==
    \E n \in 1 .. Len(stack[t]) : stack[t][n].k \in ks /\ stack[t][n].id = i

\* this step is a call that reaches Hub.switch(), made by the current greenlet
SwitchCalled ==
    /\ Len(stack'[cur]) > Len(stack[cur])
    /\ Top(stack'[cur]).k \in WaitFns \cup {"Hub.switch", "sleep"}

NoEvents == \A i \in Ids : ~Armed(i)
Waits    == WaitFns \cup {"sleep"}

\* C1: Hub.switch() called by the driver greenlet fails its assertion and moves
\* control nowhere; a call that does switch into the driver is made by a greenlet
\* that is not the driver.
C1_SwitchOnlyFromNonDriver ==
    [][SwitchCalled =>
         IF cur = hubG
         THEN /\ sig'.k = "exc" /\ sig'.v = AssertionError /\ sig'.fr.k = "Hub.switch"
              /\ cur' = cur /\ hubG' = hubG /\ tstate' = tstate
         ELSE cur' # cur /\ cur' = hubG']_vars

\* a wait primitive called from a reactor callback has just failed in Hub.switch()
C1_Witness ==
    /\ Running /\ cur = hubG
    /\ sig.k = "exc" /\ sig.v = AssertionError /\ sig.fr.k = "Hub.switch"
    /\ TopF.k \in WaitFns \cup {"Hub.switch"}

\* C2: an event armed by wait_* or sleep is registered only while that call is
\* still on the stack of the greenlet that made it; when the call has returned or
\* raised, its event is not registered.
C2_WaitEventsCancelled ==
    /\ \A i \in Ids : (Armed(i) /\ ev[i].by \in Waits) =>
          /\ tstate[ev[i].tgt] = "alive"
          /\ HasFrame(ev[i].tgt, {ev[i].by}, i)
    /\ (sig.k # "none" /\ sig.fr.k \in Waits) => ~Armed(sig.fr.id)

\* a wait primitive is left by the exception kill() threw into it
C2_Witness ==
    sig.k = "exc" /\ sig.fr.k \in WaitFns /\ sig.v = CustomExc

\* C3: a wait primitive returns normally only when it was resumed with its own
\* event; resumed with anything else it raises AssertionError.
C3_WaitReturnsOwnEvent ==
    /\ (sig.k = "ret" /\ sig.fr.k \in WaitFns) => sig.got = EvVal(sig.fr.id)
    /\ (sig.fr.k \in WaitFns /\ sig.got # NoVal /\ sig.got # EvVal(sig.fr.id)) =>
          (sig.k = "exc" /\ sig.v = AssertionError)

\* a wait primitive has returned normally
C3_Witness ==
    sig.k = "ret" /\ sig.fr.k \in WaitFns /\ sig.got = EvVal(sig.fr.id)

\* C4: spawn creates the greenlet without a switch: the current greenlet stays
\* current, the new one is not started and a timer is armed to switch into it;
\* a spawned greenlet starts only when the driver's dispatch fires such a timer.
C4_SpawnDoesNotYield ==
    [][\A g \in Tasks :
         /\ (tstate[g] = "none" /\ tkind'[g] = "user") =>
               /\ cur' = cur /\ tstate'[g] = "new" /\ stack'[g] = <<>>
               /\ Len(stack'[cur]) = Len(stack[cur])
               /\ ev'[nextId].st = "armed" /\ ev'[nextId].tgt = g
               /\ ev'[nextId].cb = "switch"
         /\ (tkind[g] = "user" /\ tstate[g] = "new" /\ tstate'[g] = "alive") =>
               /\ InDispatch /\ cur' = g
               /\ \E i \in Ids : Armed(i) /\ ev[i].tgt = g /\ ev[i].cb = "switch"
                                 /\ ~Armed(i)']_vars

\* a spawned greenlet is running
C4_Witness ==
    tkind[cur] = "user" /\ tstate[cur] = "alive"

\* C5: with no event pending dispatch() returns > 0 and the driver greenlet dies:
\* its parent gets Hub.run()'s "no events registered" result.  A greenlet that then
\* calls Hub.switch() makes a new driver greenlet first: control always arrives in
\* the hub's driver, alive and started, never in a dead one.
C5_DeadDriverIsReplaced ==
    [][/\ (InDispatch /\ NoEvents) =>
             /\ tstate'[cur] = "dead" /\ cur' # cur
             /\ sig'.k = "ret" /\ sig'.v = RunResult(1)
       /\ (SwitchCalled /\ cur # hubG) =>
             /\ cur' = hubG' /\ tstate'[hubG'] = "alive" /\ stack'[hubG'] # <<>>
             /\ (hubG # NoTask /\ tstate[hubG] = "dead") =>
                   /\ hubG' # hubG /\ tstate[hubG'] = "none"
                   /\ tkind'[hubG'] = "driver"
                   /\ stack'[hubG'] = <<RunFrame("start")>>
             /\ (hubG # NoTask /\ tstate[hubG] # "dead") => hubG' = hubG]_vars

\* no event was ever armed, a driver greenlet is dead, and its successor runs
C5_Witness ==
    /\ nextId = 0 /\ hubG # NoTask /\ cur = hubG /\ tstate[hubG] = "alive"
    /\ \E d \in Tasks : d # hubG /\ tkind[d] = "driver" /\ tstate[d] = "dead"

\* C6: when the timer of with_timeout i fires, its marker is thrown into the
\* greenlet inside that call; the marker then unwinds one frame per step up to the
\* call, which returns timeout_value if one was given.  When func returns, the call
\* returns func's value and its timer is no longer armed: the timer of a
\* with_timeout call is armed only while the call is on the stack.
C6_WithTimeoutValue ==
    /\ [][\A i \in Ids :
            /\ (InDispatch /\ Armed(i) /\ ev[i].exc = Marker(i) /\ ~Armed(i)') =>
                  /\ cur' = ev[i].tgt /\ sig'.k = "exc" /\ sig'.v = Marker(i)
                  /\ HasFrame(cur, {"with_timeout"}, i)'
            /\ (/\ Running /\ sig.k = "exc" /\ sig.v = Marker(i)
                /\ \E n \in 1 .. Len(stack[cur]) :
                      /\ stack[cur][n].k = "with_timeout"
                      /\ stack[cur][n].id = i /\ stack[cur][n].hv) =>
                  /\ cur' = cur /\ stack'[cur] = Pop(stack[cur])
                  /\ IF TopF.k = "with_timeout" /\ TopF.id = i
                     THEN sig'.k = "ret" /\ sig'.v = TValue(i)
                     ELSE sig'.k = "exc" /\ sig'.v = Marker(i)
            /\ (Running /\ TopF.k = "with_timeout" /\ TopF.id = i /\ sig.k = "ret") =>
                  /\ sig'.k = "ret" /\ sig'.v = sig.v
                  /\ ~Armed(i)']_vars
    /\ [](\A i \in Ids : (Armed(i) /\ ev[i].exc = Marker(i)) =>
            HasFrame(ev[i].tgt, {"with_timeout"}, i))

\* a with_timeout call has just returned its timeout_value
C6_Witness ==
    sig.k = "ret" /\ sig.fr.k = "with_timeout" /\ sig.v = TValue(sig.fr.id)

\* C7: the timer of a timeout object is armed only while its scope (the `with`
\* block, or the with_timeout call) is on the stack of the greenlet that entered
\* it: once the scope is left, by any path, the timer cannot throw.
C7_ScopeTimerCancelled ==
    /\ \A i \in Ids : (Armed(i) /\ ev[i].by = "timeout") =>
          /\ tstate[ev[i].tgt] = "alive"
          /\ HasFrame(ev[i].tgt, {"timeout", "with_timeout"}, i)
    /\ (sig.k # "none" /\ sig.fr.k \in {"timeout", "with_timeout"}) => ~Armed(sig.fr.id)

\* a `with timeout(seconds)` block is left by an exception that is not its own,
\* with its timer not yet fired
C7_Witness ==
    sig.k = "exc" /\ sig.fr.k = "timeout" /\ sig.fr.tm /\ sig.v = CustomExc

\* C8: a with_timeout call turns only its own marker, and only when a
\* timeout_value was given, into that value; any other exception, the marker of
\* another with_timeout included, leaves it unchanged, with its timer cancelled.
C8_MarkerIdentity ==
    [][(Running /\ TopF.k = "with_timeout" /\ sig.k = "exc") =>
         /\ cur' = cur /\ stack'[cur] = Pop(stack[cur])
         /\ ev'[TopF.id].st # "armed"
         /\ IF sig.v = Marker(TopF.id) /\ TopF.hv
            THEN sig'.k = "ret" /\ sig'.v = TValue(TopF.id)
            ELSE sig'.k = "exc" /\ sig'.v = sig.v]_vars

\* an inner with_timeout that has a timeout_value has let the marker of an
\* enclosing with_timeout through
C8_Witness ==
    /\ Running /\ sig.k = "exc" /\ sig.fr.k = "with_timeout" /\ sig.fr.hv
    /\ sig.v.ty = "TimeoutError" /\ sig.v.id # NoId /\ sig.v.id # sig.fr.id
    /\ HasFrame(cur, {"with_timeout"}, sig.v.id)

\* C9: a timeout scope made with exception None swallows at its exit the
\* _SilentException it made itself and lets every other exception out; a silent
\* sentinel is only ever in flight inside the scope that made it.
C9_SilentOnlyOwn ==
    /\ [][(Running /\ TopF.k = "timeout" /\ TopF.ex.ty = "_SilentException"
           /\ sig.k = "exc") =>
            /\ cur' = cur /\ stack'[cur] = Pop(stack[cur])
            /\ IF sig.v = Silent(TopF.id)
               THEN sig'.k = "ret" /\ sig'.v = None
               ELSE sig'.k = "exc" /\ sig'.v = sig.v]_vars
    /\ []((sig.k = "exc" /\ sig.v.ty = "_SilentException") =>
            HasFrame(cur, {"timeout"}, sig.v.id))

\* a silent scope has let the sentinel of an enclosing silent scope through
C9_Witness ==
    /\ sig.k = "exc" /\ sig.fr.k = "timeout" /\ sig.fr.ex.ty = "_SilentException"
    /\ sig.v.ty = "_SilentException" /\ sig.v # sig.fr.ex

\* the call that has just returned or raised is a setblocking or settimeout call
SetterCalled == sig.k = "none" /\ sig'.k # "none" /\ sig'.fr.k \in {"setblocking", "settimeout"}

\* C10: the real socket of every cooperative socket that is not closed is in
\* non-blocking mode in every reachable state, however the cooperative socket was
\* made; setblocking and settimeout leave the real sockets as they are and change
\* nothing of a cooperative socket but its timeout.
C10_UnderlyingNonBlocking ==
    /\ [](\A w \in Socks : (Live(w) /\ ~IsClosed(w)) =>
             /\ socks[wraps[w].sock].st = "open"
             /\ ~socks[wraps[w].sock].blocking)
    /\ [][SetterCalled =>
             /\ socks' = socks
             /\ \A w \in Socks : [wraps'[w] EXCEPT !.timeout = TNone]
                                   = [wraps[w] EXCEPT !.timeout = TNone]]_vars

\* setblocking(True) has just returned on a cooperative socket that is not closed
C10_Witness ==
    /\ sig.k = "ret" /\ sig.fr.k = "setblocking" /\ sig.fr.hv
    /\ Live(sig.fr.id) /\ ~IsClosed(sig.fr.id)
    /\ wraps[sig.fr.id].timeout = TNone
    /\ ~socks[wraps[sig.fr.id].sock].blocking

\* the I/O methods of a cooperative socket
IoFns == RecvFns \cup {"accept", "connect", "send", "sendall", "fileno"}

\* the call that the current greenlet makes in this step is an I/O method of w,
\* which ends in this very step
IoCallEnds(w) ==
    /\ Caller /\ sig'.k # "none"
    /\ sig'.fr.k \in IoFns /\ sig'.fr.id = w

\* C11: after close(), every I/O method called on the wrapper raises the
\* bad-file-descriptor error EBADF, and the wrapper stays closed.
C11_ClosedRaisesEBADF ==
    [][\A w \in Socks :
          /\ (Live(w) /\ IsClosed(w)) => (Live(w) /\ IsClosed(w))'
          /\ (Live(w) /\ IsClosed(w) /\ IoCallEnds(w)) =>
                 (sig'.k = "exc" /\ sig'.v = SockError("EBADF"))]_vars

\* sendall returns normally in this step
SendallReturns == sig' # sig /\ sig'.k = "ret" /\ sig'.fr.k = "sendall"

\* sendall takes up its loop again in this step, after a send that returned
SendallGoesOn == Running /\ TopF.k = "sendall" /\ sig.k = "ret"

\* the sum of the byte counts that the send calls of the running sendall returned
SentSoFar == IF SendallGoesOn THEN Loc.sent + sig.v.id ELSE 0

\* C12: sendall returns normally only when its send calls have returned at least
\* len(buf) bytes in sum; with a finite timeout, when the deadline fixed at the
\* start of the call has passed with bytes unsent, it raises timeout and calls
\* send no more.
C12_SendallComplete ==
    [][/\ SendallReturns => SentSoFar >= sig'.fr.ex.id
       /\ (SendallGoesOn /\ SentSoFar < Loc.len /\ Loc.end # NoTime /\ now >= Loc.end) =>
              /\ sig'.k = "exc" /\ sig'.v = SockTimeout /\ sig'.fr.k = "sendall"
              /\ ev' = ev /\ Len(stack'[cur]) < Len(stack[cur])]_vars

\* sendall on a socket with a finite timeout has returned after it sent all the
\* bytes, having waited for the socket to become writable
C12_Witness ==
    /\ sig.k = "ret" /\ sig.fr.k = "sendall" /\ sig.fr.tm
    /\ sig.fr.ex.id = MaxLen
    /\ ops = 2 /\ now > 0

\* greenlet t is in a wait primitive called by the frame at position i of its stack
WaitsAt(t, i) == i < Len(stack[t]) /\ stack[t][i + 1].k \in WaitFns

\* greenlet t is in a wait primitive called by an I/O method of the socket w
InIoWait(t, w) ==
    \E i \in 1 .. Len(stack[t]) :
        /\ stack[t][i].k \in IoFns /\ stack[t][i].id = w
        /\ WaitsAt(t, i)

InReadWait(t, w) ==
    \E i \in 1 .. Len(stack[t]) :
        /\ stack[t][i].k \in RecvFns \cup {"accept"} /\ stack[t][i].id = w
        /\ WaitsAt(t, i)

\* C14: on a socket with a positive finite timeout t, a recv* or accept call is
\* never suspended later than t after the call began.
C14_TimeoutIsDeadline ==
    \A t \in Tasks, w \in Socks :
        (InReadWait(t, w) /\ ~wraps[w].timeout.none /\ wraps[w].timeout.secs > 0) =>
            now <= iol[t].began + wraps[w].timeout.secs

\* C15: when kill(T, exc), called by a user task while T is suspended, returns
\* to its caller, exc has been thrown into T: the timer that throws it has fired.
C15_KillDeliveredOnReturn ==
    (sig.k = "ret" /\ sig.fr.k = "kill" /\ sig.fr.pc = "called" /\ sig.fr.hv) =>
        ~Armed(sig.fr.id)

\* C16: sleep returns normally only after its own timer has fired: when a
\* sleeping greenlet is resumed with a value, the timer of its sleep call is no
\* longer pending.
C16_SleepReturnsAfterTimer ==
    (Running /\ TopF.k = "sleep" /\ sig.k = "ret") => ~Armed(TopF.id)

\* C17: when a spawned task finishes or fails, control passes to the hub's
\* current driver greenlet, never to a user task or to the main greenlet.
C17_FinishGoesToDriver ==
    [][\A g \in Tasks :
          (cur = g /\ tkind[g] = "user" /\ tstate[g] = "alive" /\ tstate'[g] = "dead") =>
              (cur' = hubG' /\ tkind'[cur'] = "driver" /\ tstate'[cur'] = "alive")]_vars

\* C18: all get_hub() calls of one thread return the same Hub, whatever the
\* other threads do, and no two threads are given the same Hub.
C18_HubPerThread ==
    /\ \A th \in Threads : Cardinality(thgot[th]) <= 1
    /\ \A a, b \in Threads : a # b => thgot[a] \cap thgot[b] = {}

\* connect_ex takes the outcome of its connect call in this step
ConnectExEnds == Running /\ TopF.k = "connect_ex" /\ sig.k # "none"

\* C19: connect_ex returns 0 when connect succeeds, the would-block errno when it
\* times out and the errno of a plain OS error; every other exception of connect
\* propagates. It never raises for a timeout or a plain OS error.
C19_ConnectExOutcome ==
    [][ConnectExEnds =>
          /\ sig.k = "ret" => (sig'.k = "ret" /\ sig'.v = Val("int", 0))
          /\ (sig.k = "exc" /\ sig.v = SockTimeout) =>
                 (sig'.k = "ret" /\ sig'.v = SockError("EAGAIN"))
          /\ (sig.k = "exc" /\ IsPlainError(sig.v)) => (sig'.k = "ret" /\ sig'.v = sig.v)
          /\ (sig.k = "exc" /\ sig.v # SockTimeout /\ ~IsPlainError(sig.v)) =>
                 (sig'.k = "exc" /\ sig'.v = sig.v)]_vars

\* create_connection takes the outcome of a connect call in this step
CcConnectEnds == Running /\ TopF.k = "create_connection" /\ sig.k # "none"

\* create_connection returns or raises in this step
CcEnds == CcConnectEnds /\ Len(stack'[cur]) < Len(stack[cur])

\* the cooperative socket w is closed after this step
ClosedAfter(w) == wraps'[w].st = "live" /\ wraps'[w].sock = NoSock

\* the first successful connect ends create_connection, which returns that socket
\* and makes no further socket; when the last attempt fails with a socket error,
\* that error is raised
CcFirstSuccessLastError ==
    /\ (CcConnectEnds /\ sig.k = "ret") =>
           /\ CcEnds /\ sig'.k = "ret" /\ sig'.v = Val("socket", TopF.id)
           /\ wraps' = wraps /\ socks' = socks
    /\ (CcConnectEnds /\ sig.k = "exc" /\ IsError(sig.v) /\ ~TopF.hv) =>
           (CcEnds /\ sig'.k = "exc" /\ sig'.v = sig.v)

\* C20 as stated: create_connection returns the socket of the first successful
\* connect and tries no later address; every socket whose connect failed is
\* closed when create_connection goes on, returns or raises; if every attempt
\* fails, the error of the last one is raised.
C20_FailedSocketsClosed ==
    [][/\ CcFirstSuccessLastError
       /\ (CcConnectEnds /\ sig.k = "exc") => ClosedAfter(TopF.id)]_vars

\* C20 amended: the sockets closed are those whose connect raised a socket error
\* (error, timeout and gaierror); another exception raised out of connect leaves
\* create_connection at once, with the socket as it is.
C20_ErrorSocketsClosed ==
    [][/\ CcFirstSuccessLastError
       /\ (CcConnectEnds /\ sig.k = "exc" /\ IsError(sig.v)) =>
              ClosedAfter(TopF.id)
       /\ (CcConnectEnds /\ sig.k = "exc" /\ ~IsError(sig.v)) =>
              (CcEnds /\ sig'.k = "exc" /\ sig'.v = sig.v /\ wraps' = wraps)]_vars

\* create_connection has raised the error of its second attempt, and the sockets
\* of both attempts are closed
C20_Witness ==
    /\ sig.k = "exc" /\ sig.fr.k = "create_connection" /\ sig.fr.pc = "second"
    /\ IsError(sig.v)
    /\ \A w \in Socks : Live(w) /\ IsClosed(w)

\* greenlet t is in the wait_write of a sendto call on the socket w
InSendtoWait(t, w) ==
    \E i \in 1 .. Len(stack[t]) :
        /\ stack[t][i].k = "sendto" /\ stack[t][i].id = w
        /\ WaitsAt(t, i) /\ stack[t][i + 1].k = "wait_write"

\* sendto makes its second attempt in this step
SendtoRetries == Running /\ TopF.k = "sendto" /\ sig.k = "ret"

\* C21: sendto treats would-block as send does with the socket's timeout: on a
\* socket whose timeout is 0 it never calls wait_write (the would-block error is
\* raised at once); otherwise it waits once with wait_write and retries once, and
\* a second would-block makes it return 0 without a further wait.
C21_SendtoLikeSend ==
    /\ [](\A t \in Tasks, w \in Socks :
             (Live(w) /\ wraps[w].timeout = Secs(0)) => ~InSendtoWait(t, w))
    /\ [][SendtoRetries =>
             /\ stack'[cur] = Pop(stack[cur]) /\ cur' = cur /\ nextId' = nextId
             /\ sig'.fr.k = "sendto" /\ sig'.fr.pc = "second"
             /\ sig'.got = SockError("EWOULDBLOCK") =>
                    (sig'.k = "ret" /\ sig'.v = Val("int", 0))]_vars

\* greenlet t is suspended in a connect call on the socket w: in a wait of the
\* kinds ks that the call has made
InConnect(t, w, ks) ==
    \E i \in 1 .. Len(stack[t]) :
        /\ stack[t][i].k = "connect" /\ stack[t][i].id = w
        /\ i < Len(stack[t]) /\ stack[t][i + 1].k \in ks

\* the timeout of the socket w is a positive number
Finite(w) == ~wraps[w].timeout.none /\ wraps[w].timeout.secs > 0

\* connect goes round its loop once more in this step, after a wait_readwrite
\* that returned
ConnectRetries == Running /\ TopF.k = "connect" /\ TopF.pc = "loop" /\ sig.k = "ret"

\* what C22 says of the waits of connect's loop: with a finite timeout the end
\* instant does not move while the loop runs, each wait_readwrite ends at the end
\* instant at the latest, and a round that begins with no time left ends the call
\* without a further wait, by timeout unless the connect has succeeded or failed;
\* with timeout None the waits have no limit; with timeout 0 there is no wait
ConnectLoopDeadline ==
    /\ [](\A t \in Tasks, w \in Socks : InConnect(t, w, {"wait_readwrite"}) =>
             IF wraps[w].timeout.none
             THEN iol[t].end = NoTime /\ iol[t].due = NoTime /\ ~Top(stack[t]).tm
             ELSE /\ wraps[w].timeout.secs > 0
                  /\ iol[t].due = iol[t].end /\ now <= iol[t].end /\ Top(stack[t]).tm)
    /\ [][ConnectRetries =>
             /\ (Len(stack'[cur]) >= Len(stack[cur])) => iol'[cur].end = iol[cur].end
             /\ (Loc.end # NoTime /\ now >= Loc.end) =>
                    /\ stack'[cur] = Pop(stack[cur]) /\ cur' = cur /\ nextId' = nextId
                    /\ sig'.k = "exc" => sig'.v # SockError("EINPROGRESS")]_vars

SendWaits ==
    /\ Caller /\ Len(stack'[cur]) = Len(stack[cur]) + 2
    /\ stack'[cur][Len(stack[cur]) + 1].k = "send"

\* the send frame of the call made in this step
SendFrame == stack'[cur][Len(stack[cur]) + 1]

\* the current greenlet calls send in this step, and send ends without a wait
SendEndsAtOnce == Caller /\ sig'.k # "none" /\ sig'.fr.k = "send"

\* send is resumed after its wait in this step
SendResumes == Running /\ TopF.k = "send" /\ sig.k # "none"

\* C23: one send call waits at most once and tries at most twice. It waits, in
\* wait_write, only with an effective timeout that is not 0, which is the keyword
\* if given and the socket's timeout otherwise; resumed, it ends in the same step
\* without a further wait: by the exception of the wait, or after a second attempt
\* whose would-block makes it return 0 and never raises would-block. No step of a
\* send call changes a cooperative socket.
C23_SendTriesTwice ==
    [][/\ SendWaits =>
             /\ Top(stack'[cur]).k = "wait_write" /\ SendFrame.pc = "first"
             /\ iol'[cur].due # now
             /\ ~SendFrame.hv => iol'[cur].due = Deadline(wraps[SendFrame.id].timeout)
             /\ SendFrame.hv => (iol'[cur].due = NoTime <=> ~SendFrame.tm)
       /\ SendResumes =>
             /\ stack'[cur] = Pop(stack[cur]) /\ cur' = cur
             /\ nextId' = nextId /\ \A i \in Ids : Armed(i)' => Armed(i)
             /\ sig'.fr.k = "send"
             /\ sig.k = "exc" => (sig'.k = "exc" /\ sig'.v = sig.v)
             /\ sig.k = "ret" =>
                    /\ sig'.fr.pc = "second"
                    /\ sig'.got = SockError("EWOULDBLOCK") =>
                           (sig'.k = "ret" /\ sig'.v = Val("int", 0))
                    /\ sig'.k = "exc" => sig'.v # SockError("EWOULDBLOCK")
       /\ (SendWaits \/ SendEndsAtOnce \/ SendResumes) =>
             (wraps' = wraps /\ socks' = socks)]_vars

\* send(data, timeout=t) on a socket whose own timeout is 0 has waited, tried
\* again, got a second would-block and returned 0
C23_Witness ==
    /\ sig.k = "ret" /\ sig.fr.k = "send" /\ sig.fr.pc = "second" /\ sig.fr.hv
    /\ sig.got = SockError("EWOULDBLOCK") /\ sig.v = Val("int", 0)
    /\ wraps[sig.fr.id].timeout = Secs(0)

\* the frame of Hub.run() in the driver greenlet d, which is alive
RunOf(d) == stack[d][1]

\* the driver greenlet d is inside a call of core.dispatch()
Dispatching(d) ==
    /\ tkind[d] = "driver" /\ tstate[d] = "alive"
    /\ RunOf(d).pc \in {"dispatch", "in_cb"}

\* what Hub.run() returns
RunResults == {RunResult(result) : result \in {-1, 0, 1}}

\* C24: each driver greenlet calls core.dispatch() once. While it is in that call
\* it stays in it or, when dispatch returns, terminates and hands the result of
\* Hub.run() to its parent; terminated, it never runs again. A driver greenlet
\* starts only when a Hub.switch() call switches into it, and a new one is made
\* only when the hub has none that is not dead.
C24_DispatchOncePerDriver ==
    /\ [](\A d \in Tasks : (tkind[d] = "driver" /\ tstate[d] = "alive") =>
             /\ RunOf(d).k = "run"
             /\ \A n \in 2 .. Len(stack[d]) : stack[d][n].k # "run"
             /\ IF RunOf(d).pc = "start" THEN RunOf(d).id = NoId ELSE RunOf(d).id = 1)
    /\ [][\A d \in Tasks :
             /\ (tkind[d] = "driver" /\ tstate[d] = "dead") =>
                    (tstate'[d] = "dead" /\ stack'[d] = <<>>)
             /\ Dispatching(d) =>
                    \/ Dispatching(d)' /\ RunOf(d)'.id = RunOf(d).id
                    \/ /\ tstate'[d] = "dead" /\ stack'[d] = <<>>
                       /\ cur = d /\ TopF.k = "run" /\ cur' # d
                       /\ sig'.k = "ret" /\ sig'.v \in RunResults /\ sig'.fr.k = "Hub.run"
             /\ (tstate[d] \in {"none", "new"} /\ tstate'[d] = "alive"
                 /\ tkind'[d] = "driver") =>
                    /\ SwitchCalled /\ cur # d /\ cur' = d /\ hubG' = d
                    /\ stack'[d] = <<RunFrame("start")>>
             /\ (tstate[d] = "none" /\ tkind'[d] = "driver") =>
                    (hubG = NoTask \/ tstate[hubG] = "dead")]_vars

\* the second driver greenlet of the hub is in its call of dispatch, with an
\* event pending; the first one terminated when its dispatch returned
C24_Witness ==
    /\ cur = hubG /\ InDispatch /\ TopF.id = 1
    /\ \E i \in Ids : Armed(i)
    /\ \E d \in Tasks : d # hubG /\ tkind[d] = "driver" /\ tstate[d] = "dead"

\* C25: when a greenlet that has a switch_out hook calls Hub.switch() and is not
\* the driver, the hook is called once and then control is in the hub's driver,
\* whether the hook returned or raised: the caller is left suspended and gets no
\* exception from the call.
C25_SwitchOutHook ==
    [][(SwitchCalled /\ switch_out[cur] # "none" /\ cur # hubG) =>
          /\ Top(stack'[cur]).ex = Val(switch_out[cur], 1)
          /\ cur' # cur /\ cur' = hubG'
          /\ tkind'[cur'] = "driver" /\ tstate'[cur'] = "alive"
          /\ sig'.k # "exc"]_vars

\* the driver runs after a Hub.switch() of a greenlet whose hook raised, and that
\* greenlet is suspended in the call
C25_Witness ==
    /\ cur = hubG /\ Running /\ TopF.k = "run"
    /\ \E t \in Tasks :
          /\ t # cur /\ tstate[t] = "alive" /\ switch_out[t] = "raises"
          /\ Top(stack[t]).k \in {"sleep", "Hub.switch"}
          /\ Top(stack[t]).ex = Val("raises", 1)

\* the frame of deliver_exception_to_MAIN
Delivers(f) == f.k = "deliver_exception_to_MAIN"

\* the reactor delivers the hub's SIGINT signal in this step
SigintFires ==
    /\ InDispatch /\ Len(stack'[cur]) = Len(stack[cur]) + 1
    /\ Delivers(Top(stack'[cur])) /\ Top(stack'[cur]).id = kbsig

\* the handler of a signal has raised in this step's greenlet
HandlerRaised == Running /\ Delivers(TopF) /\ TopF.pc = "try" /\ sig.k = "exc"

\* C26: the handler of a signal runs in the driver greenlet, called by
\* deliver_exception_to_MAIN from the dispatch loop; an exception that the handler
\* raises is thrown into MAIN, which takes it where it was suspended, while the
\* driver and the other greenlets stay as they are; the hub's SIGINT event
\* resumes MAIN with KeyboardInterrupt where it was suspended.
C26_SignalExceptionsToMain ==
    /\ [](\A t \in Tasks : \A n \in 1 .. Len(stack[t]) : Delivers(stack[t][n]) =>
             (tkind[t] = "driver" /\ n = 2 /\ stack[t][1].pc = "in_cb"))
    /\ [][/\ HandlerRaised =>
                /\ cur' = MAIN /\ sig'.k = "exc" /\ sig'.v = sig.v
                /\ stack'[MAIN] = stack[MAIN] /\ tstate' = tstate
                /\ Len(stack'[cur]) = Len(stack[cur])
          /\ SigintFires =>
                /\ cur' = MAIN /\ sig'.k = "exc" /\ sig'.v = KeyboardInterrupt
                /\ stack'[MAIN] = stack[MAIN] /\ tstate' = tstate]_vars

\* MAIN, suspended in sleep, has been resumed with the exception that the handler
\* of a signal raised, while a spawned greenlet is alive
C26_Witness ==
    /\ cur = MAIN /\ sig.k = "exc" /\ sig.v = CustomExc
    /\ sig.fr.k = "deliver_exception_to_MAIN" /\ TopF.k = "sleep"
    /\ \E t \in Tasks : tkind[t] = "user" /\ tstate[t] = "alive"

\* the SIGINT events that Hub.run() has registered
HubSigints == {i \in 1 .. Len(sigs) : sigs[i].by = "Hub.run"}

\* the driver greenlet d has run the first lines of Hub.run()
HasRun(d) ==
    /\ tkind[d] = "driver"
    /\ tstate[d] = "dead" \/ (tstate[d] = "alive" /\ RunOf(d).pc # "start")

\* C27: the hub's SIGINT handler is registered at most once, however many driver
\* greenlets the hub has had, and it is registered exactly when a driver greenlet
\* has begun to run Hub.run(): not when the hub is made.
C27_SigintInstalledOnce ==
    /\ Cardinality(HubSigints) <= 1
    /\ kbsig # NoId <=> HubSigints = {kbsig}
    /\ kbsig # NoId <=> \E d \in Tasks : HasRun(d)

\* the third driver greenlet of the hub is in dispatch, the two before it are
\* dead, and the hub has one SIGINT event
C27_Witness ==
    /\ cur = hubG /\ InDispatch
    /\ Cardinality({d \in Tasks : tkind[d] = "driver" /\ tstate[d] = "dead"}) = 2
    /\ Cardinality(HubSigints) = 1

====
